---- MODULE Spec2Model ----
(***************************************************************************)
(* gitforked: the team channel (TeamChannel.broadcastToAll), the agent     *)
(* runtime (Agent.sendMessage, GrokAPI.processPrompt and its two tool      *)
(* loops) and the tool sandbox's path jail (ToolSandbox.validatePath).     *)
(*                                                                         *)
(* An async function is split at its awaits: one action runs from one      *)
(* await to the next.  Requests are issued by the host one at a time.      *)
(***************************************************************************)
EXTENDS Integers, Sequences, FiniteSets, TLC

(* ------------------------------ bounds -------------------------------- *)
\* Spec: the team channel over several requests
MaxAgents == 2          \* agents in the team
MaxRequests == 2        \* host requests (broadcasts and DMs) in one run
MaxTeamRounds == 1      \* largest configured sandbox.maxRounds
MaxTeamPerRound == 1    \* largest configured sandbox.maxToolCallsPerRound
MaxTeamCalls == 1       \* tool calls in one assistant turn
\* SpecLoop: one request of one agent, the tool loop in detail
MaxRoundsCfg == 2       \* largest configured sandbox.maxRounds
MaxPerRoundCfg == 2     \* largest configured sandbox.maxToolCallsPerRound
MaxCallsPerTurn == 3    \* tool calls in one assistant turn
\* SpecPath: the path jail
MaxPathLen == 3         \* segments of a tool path argument
MaxCmdLen == 3          \* words of a bash command
MaxStringLen == 10250   \* characters of a tool's raw result or error message
MaxNameLen == 1         \* characters of a team name
MaxTeamAgents == 2      \* agents of a managed team
MaxTeamOps == 4         \* TeamManager operations in one run
MaxViewLen == 2         \* entries of an array the host changes

(* --------------------------- program constants ------------------------ *)
maxContextMessages == 50

Providers == {"grok", "claude", "groq"}
\* every provider tag the constructor knows
AllProviders == {"grok", "groq", "gemini", "claude", "ollama"}
ToolNames == {"bash", "read"}
Msgs == {"m1", "m2"}
AgentIds == 1..MaxAgents

\* GrokAPI.dangerousTools: the list the class declares; neither tool loop reads it
dangerousTools == {"bash", "write", "edit", "read", "glob", "grep", "webfetch"}

VARIABLES
  team,                  \* TeamManager.currentTeam.agents, as agent ids in order
  provider,              \* Agent.provider, by agent id
  status,                \* Agent.status, by agent id
  messages,              \* Agent.messages (private DM history), by agent id
  lastFailed,            \* whether the agent's last finished request threw
  maxRounds,             \* ToolSandbox.maxRounds
  maxToolCallsPerRound,  \* ToolSandbox.maxToolCallsPerRound
  sharedMessages,        \* TeamChannel.sharedMessages
  bpc,                   \* position of broadcastToAll: "idle", "loop", "await"
  bIdx,                  \* index of the for-of loop over the agents
  bMsg,                  \* userMessage of the running broadcast
  bStart,                \* Len(sharedMessages) when the running broadcast began
  responses,             \* responses of the running / last broadcast
  prompts,               \* contextPrompt built for each agent of the broadcast
  events,                \* events emitted by the running / last broadcast
  req,                   \* the request in flight (Agent.sendMessage activation)
  lpc,                   \* position of the tool loop
  totalRounds,
  totalToolCalls,
  accumulatedText,       \* parts of accumulatedText, in order
  toolCalls,             \* tool calls of the current assistant turn
  tcIdx,                 \* index of the tool call being executed
  toolResults,           \* results produced for the current turn
  loopMessages,          \* what the loop appended to loopMessages
  cbLog,                 \* callbacks the loop invoked during this request
  providerCalls,         \* client.post calls of this request
  executed,              \* _dispatchTool calls of this request
  lastUsage,             \* lastUsage of the tool loop
  responseUsage,         \* response.data.usage of the latest client.post
  toolLog,               \* ToolSandbox.toolLog: the entries of every agent's sandbox, in
                         \* the order they were pushed, each with the sandbox's owner
  nRequests,             \* host requests issued so far
  histBefore,            \* messages of every agent when the host request began
  hostError,             \* message of the error the last broadcastToAll threw, <<>> if none
  pathIn,                \* validatePath: last input
  pathOut,               \* validatePath / executeRead: last outcome
  safeMode,              \* ToolSandbox.safeMode
  callIn,                \* executeBash / executeWebFetch: the arguments
  callOut,               \* executeBash / executeWebFetch: what the call did
  maxResultSize,         \* ToolSandbox.maxResultSize
  resIn,                 \* a tool's raw outcome
  resOut,                \* the string made of it
  currentTeam,           \* TeamManager.currentTeam
  disk,                  \* the files of teamsDir, by file name without '.json'
  configKey,             \* the process-wide API key of the config
  created,               \* Agent objects constructed so far
  lastOp,                \* the last TeamManager operation and whether it threw
  nOps,                  \* TeamManager operations so far
  teamFiles,             \* files that hold a persisted record of the current team
  snapshot,              \* the team as it was at the last saveTeam(), and its file
  hostView,              \* the array the host got from getSharedMessages
  sideDM,                \* a handleAgentDM activation begun while another request awaits
  sideBroadcast,         \* a broadcastToAll activation begun while another request awaits
  turnScript,            \* provider turns handed to both tool loops: tool calls and outcome
  loopOutcome,           \* what each loop made of turnScript
  dialog                 \* the AgentConfigDialog: step, fields, editingAgent, events

chanVars == <<sharedMessages, bpc, bIdx, bMsg, bStart, responses, prompts, events>>
agentVars == <<status, messages, lastFailed>>
cfgVars == <<team, provider, maxRounds, maxToolCallsPerRound>>
loopVars == <<lpc, totalRounds, totalToolCalls, accumulatedText, toolCalls, tcIdx,
              toolResults, loopMessages, cbLog, providerCalls, executed,
              lastUsage, responseUsage, toolLog>>
pathVars == <<pathIn, pathOut>>
\* everything the channel, the agents and the tool loop own
chanSide == <<chanVars, agentVars, cfgVars, loopVars, req, nRequests, histBefore, hostError>>
\* everything else
guardVars == <<safeMode, callIn, callOut>>
resultVars == <<maxResultSize, resIn, resOut>>
managerVars == <<currentTeam, disk, configKey, created, lastOp, nOps, teamFiles, snapshot>>
viewVars == <<hostView, sideDM, sideBroadcast, turnScript, loopOutcome, dialog>>
otherVars == <<pathVars, guardVars, resultVars, managerVars, viewVars>>
vars == <<chanSide, otherVars>>

(* ------------------------------ helpers ------------------------------- *)
NullId == 0                      \* agentId: null of a user entry
NoReq == [kind |-> "none", agent |-> NullId, includeHistory |-> FALSE, msg |-> <<>>,
          callbacks |-> FALSE]

\* Agent.name and Agent.role of the agent with this id
AgentName(a) == ToString(a)
AgentRole(a) == "role"

\* Array.prototype.slice(-k)
SliceLastKeepsAll(s, k) == s
SliceLast(s, k) == IF Len(s) <= k THEN s ELSE SubSeq(s, Len(s) - k + 1, Len(s))

RECURSIVE Flatten(_)
Flatten(ss) == IF ss = <<>> THEN <<>> ELSE Head(ss) \o Flatten(Tail(ss))

\* sandbox.maxRounds * sandbox.maxToolCallsPerRound
maxTotalToolCalls == maxRounds * maxToolCallsPerRound

CallsNote == "[Tool limit: max tool calls reached]"
RoundsNote == "[Tool limit: max rounds reached]"
LimitMsg == "[Tool limit reached: max tool calls exceeded]"

\* response.data.usage, as the token count it reports; NoUsage when the
\* response carries no usage field
NoUsage == 0
MaxUsage == 2
Usages == 1..MaxUsage
DefaultUsage == CHOOSE usage \in Usages : \A other \in Usages : usage <= other
\* _formatUsageFooter: '' without usage, else the separator and the counts
FooterOf(usage) == "---Tokens: " \o ToString(usage)
formatUsageFooter(usage) == IF usage = NoUsage THEN <<>> ELSE <<FooterOf(usage)>>
Footer == FooterOf(DefaultUsage)

\* the tool calls one assistant turn can carry: sequences of at most k tool names
CallSeqs(k) == UNION {[1..j -> ToolNames] : j \in 0..k}

(* ------------------- TeamChannel.buildContextPrompt -------------------- *)
\* The prompt text as the sequence of the pieces the code concatenates.
RenderPrompt(userMessage, a, entries, first) ==
  <<"== USER REQUEST ==", userMessage>>
  \o (IF ~first
        THEN <<"== TEAMMATE RESPONSES ==">>
             \o Flatten([i \in 1..Len(entries) |->
                  <<"---", entries[i].agentName, entries[i].role>> \o entries[i].content])
        ELSE <<>>)
  \o <<"== YOUR ASSIGNMENT ==", AgentName(a), AgentRole(a)>>
  \o <<IF first THEN "You go FIRST" ELSE "Your teammates above have already responded">>
  \o <<"IMPORTANT">>

buildContextPrompt(shared, userMessage, a) ==
  LET recentMessages == SliceLast(shared, maxContextMessages)
      priorAgentResponses == SelectSeq(recentMessages, LAMBDA m : m.agentId # NullId)
      isFirstAgent == Len(priorAgentResponses) = 0
  IN  RenderPrompt(userMessage, a, priorAgentResponses, isFirstAgent)

(* --------------------------- the tool loops ---------------------------- *)
\* The loop's local state as one record, so that the code between two awaits
\* is a function from loop state to loop state.
LoopState ==
  [lpc |-> lpc, totalRounds |-> totalRounds, totalToolCalls |-> totalToolCalls,
   accumulatedText |-> accumulatedText, toolCalls |-> toolCalls, tcIdx |-> tcIdx,
   toolResults |-> toolResults, loopMessages |-> loopMessages, cbLog |-> cbLog,
   providerCalls |-> providerCalls, executed |-> executed,
   lastUsage |-> lastUsage, responseUsage |-> responseUsage,
   toolLog |-> toolLog, sandbox |-> req.agent]

FreshLoop ==
  [lpc |-> "none", totalRounds |-> 0, totalToolCalls |-> 0, accumulatedText |-> <<>>,
   toolCalls |-> <<>>, tcIdx |-> 0, toolResults |-> <<>>, loopMessages |-> <<>>,
   cbLog |-> <<>>, providerCalls |-> 0, executed |-> 0,
   lastUsage |-> NoUsage, responseUsage |-> NoUsage,
   toolLog |-> <<>>, sandbox |-> NullId]

ToolMsg(id, content) == [role |-> "tool", id |-> id, content |-> content]
AssistantMsg == [role |-> "assistant", id |-> 0, content |-> "text"]

AfterLoopOffByOne(l) ==
  [l EXCEPT !.lpc = "returned",
            !.accumulatedText =
               @ \o (IF l.totalRounds + 1 >= maxRounds THEN <<RoundsNote>> ELSE <<>>)
                 \o formatUsageFooter(l.lastUsage)]

\* after the while loop: the rounds sentinel, the usage footer, return
AfterLoop(l) ==
  [l EXCEPT !.lpc = "returned",
            !.accumulatedText =
               @ \o (IF l.totalRounds >= maxRounds THEN <<RoundsNote>> ELSE <<>>)
                 \o formatUsageFooter(l.lastUsage)]

\* the while condition; when it holds the next client.post is issued and awaited
WhileCondOffByOne(l) ==
  IF l.totalRounds <= maxRounds
    THEN [l EXCEPT !.lpc = "provider", !.providerCalls = @ + 1,
                   !.toolCalls = <<>>, !.tcIdx = 0, !.toolResults = <<>>]
    ELSE [l EXCEPT !.lpc = "returned",
                   !.accumulatedText = @ \o <<RoundsNote>> \o formatUsageFooter(l.lastUsage)]

WhileCond(l) ==
  IF l.totalRounds < maxRounds
    THEN [l EXCEPT !.lpc = "provider", !.providerCalls = @ + 1,
                   !.toolCalls = <<>>, !.tcIdx = 0, !.toolResults = <<>>]
    ELSE AfterLoop(l)

\* end of a round: totalRounds++, the tool-call ceiling, back to the while
EndRound(l) ==
  LET l1 == [l EXCEPT !.totalRounds = @ + 1]
  IN  IF l1.totalToolCalls >= maxTotalToolCalls
        THEN AfterLoop([l1 EXCEPT !.accumulatedText = @ \o <<CallsNote>>])
        ELSE WhileCond(l1)

GrokPushResultsReversed(l) ==
  LET n == Len(l.toolResults)
      pushed == [i \in 1..n |->
                   ToolMsg(l.toolResults[n + 1 - i].id, l.toolResults[n + 1 - i].result)]
  IN  EndRound([l EXCEPT !.loopMessages = @ \o pushed, !.totalToolCalls = @ + n])

\* _processWithToolLoop_Grok: the for loop over toolResults, then the round end
GrokPushResults(l) ==
  LET n == Len(l.toolResults)
      pushed == [i \in 1..n |->
                   IF l.totalToolCalls + (i - 1) >= maxTotalToolCalls
                     THEN ToolMsg(l.toolResults[i].id, LimitMsg)
                     ELSE ToolMsg(l.toolResults[i].id, l.toolResults[i].result)]
  IN  EndRound([l EXCEPT !.loopMessages = @ \o pushed, !.totalToolCalls = @ + n])

\* one tool call starts: onToolCall, then _dispatchTool is awaited
Dispatch(l, i) ==
  [l EXCEPT !.lpc = "tool", !.tcIdx = i,
            !.cbLog = Append(@, <<"onToolCall", l.toolCalls[i].name>>),
            !.executed = @ + 1]

\* executeToolCalls from its i-th tool call on: JSON.parse of the call's
\* arguments stands before the try block, so its SyntaxError leaves
\* executeToolCalls and the loop
GrokExec(l, i) ==
  IF i > Len(l.toolCalls) THEN GrokPushResults(l)
  ELSE IF l.toolCalls[i].args = "malformed" THEN [l EXCEPT !.lpc = "threw", !.tcIdx = i]
  ELSE Dispatch(l, i)

\* _processWithToolLoop_Claude: the for loop over toolUseBlocks from the i-th on
ClaudeLimit(l, i) ==
  LET k == Len(l.toolCalls)
      skipped == [j \in 1..(k - i + 1) |->
                    [id |-> l.toolCalls[i + j - 1].id, result |-> LimitMsg]]
  IN  [l EXCEPT !.toolResults = @ \o skipped, !.totalToolCalls = @ + (k - i + 1)]

ClaudeEndTurn(l) ==
  EndRound([l EXCEPT !.loopMessages =
              @ \o [j \in 1..Len(l.toolResults) |->
                      ToolMsg(l.toolResults[j].id, l.toolResults[j].result)]])

ClaudeExec(l, i) ==
  IF i > Len(l.toolCalls) THEN ClaudeEndTurn(l)
  ELSE IF l.totalToolCalls >= maxTotalToolCalls THEN ClaudeEndTurn(ClaudeLimit(l, i))
  ELSE Dispatch(l, i)

\* the assistant turn arrives: it is pushed, its text accumulated, and either
\* the loop breaks or the turn's tool calls start
TurnCalls(l, names) ==
  [i \in 1..Len(names) |->
     [id |-> l.providerCalls * (MaxCallsPerTurn + 1) + i, name |-> names[i],
      args |-> "json"]]

\* the k-th tool call of the turn carries arguments that are not JSON
MalformedArgs(l, k) == [l EXCEPT !.toolCalls[k].args = "malformed"]

OnTurn(l, names) ==
  [l EXCEPT !.loopMessages = Append(@, AssistantMsg),
            !.accumulatedText = Append(@, "text"),
            !.toolCalls = TurnCalls(l, names)]

GrokOnResponse(l, names) ==
  LET l1 == OnTurn(l, names)
  IN  IF Len(names) = 0 THEN AfterLoop(l1) ELSE GrokExec(l1, 1)

ClaudeOnResponse(l, toolUse, names) ==
  LET l1 == OnTurn(l, names)
  IN  IF ~toolUse THEN AfterLoop(l1) ELSE ClaudeExec(l1, 1)

\* _processSinglePass: one response, the footer, return
SinglePassOnResponse(l) ==
  [l EXCEPT !.lpc = "returned",
            !.accumulatedText = <<"text">> \o formatUsageFooter(l.responseUsage)]

\* ToolSandbox.logToolCall and getStats; each agent's GrokAPI has a sandbox of
\* its own, so an entry is kept with the agent the sandbox belongs to.  Of an
\* entry's fields the model keeps the success flag; the timestamp, the tool
\* name, the arguments and the preview are copies of the call's data.
logToolCallErrorsOnly(log, owner, toolName, success) ==
  IF success THEN log
  ELSE Append(log, [sandbox |-> owner, success |-> success])
logToolCall(log, owner, toolName, success) ==
  Append(log, [sandbox |-> owner, success |-> success])
LogOf(log, owner) == SelectSeq(log, LAMBDA e : e.sandbox = owner)
getStats(log, owner) ==
  [totalCalls |-> Len(LogOf(log, owner)),
   errors |-> Len(SelectSeq(LogOf(log, owner), LAMBDA e : ~e.success))]

\* a tool finished (ok) or raised (~ok): log, onToolResult, the result kept
OnToolDone(l, ok) ==
  LET c == l.toolCalls[l.tcIdx]
      r == [id |-> c.id, result |-> IF ok THEN "result" ELSE "Error: tool"]
  IN  [l EXCEPT !.toolLog = logToolCall(@, l.sandbox, c.name, ok),
                !.cbLog = Append(@, <<"onToolResult", c.name>>),
                !.toolResults = Append(@, r)]

GrokOnToolDone(l, ok) == GrokExec(OnToolDone(l, ok), l.tcIdx + 1)

ClaudeOnToolDone(l, ok) ==
  ClaudeExec([OnToolDone(l, ok) EXCEPT !.totalToolCalls = @ + 1], l.tcIdx + 1)

(* ------------------------- GrokAPI.processPrompt ----------------------- *)
HistMsg(m) == [role |-> IF m.role = "assistant" THEN "assistant" ELSE "user",
               id |-> 0, content |-> "history"]
PromptMsg == [role |-> "user", id |-> 0, content |-> "prompt"]

\* conversationHistory: the mapped messages, plus the prompt unless it is
\* already the last message
conversationHistory(history, prompt) ==
  [i \in 1..Len(history) |-> HistMsg(history[i])]
  \o (IF Len(history) = 0 \/ history[Len(history)].content # prompt
        THEN <<PromptMsg>> ELSE <<>>)

\* processPrompt up to its first awaited client.post, by provider
processPrompt(a, prompt, history) ==
  LET conv == conversationHistory(history, prompt)
      l0 == [FreshLoop EXCEPT !.loopMessages = conv, !.toolLog = toolLog, !.sandbox = a]
  IN  IF provider[a] \in {"grok", "claude"}
        THEN WhileCond(l0)
        ELSE [l0 EXCEPT !.lpc = "provider", !.providerCalls = 1]

\* the response arrived: `if (response.data.usage) lastUsage = response.data.usage`
OnUsageOverwrites(l, usage) == [l EXCEPT !.responseUsage = usage, !.lastUsage = usage]
OnUsage(l, usage) ==
  [l EXCEPT !.responseUsage = usage,
            !.lastUsage = IF usage # NoUsage THEN usage ELSE @]

\* A tool loop run against a scripted provider: turn k of the script is the
\* k-th response (its tool calls, all of the OpenAI 'function' type or all
\* tool_use blocks, stop reason tool_use exactly when there are any) and `ok`
\* tells whether the tools of that turn succeed.  The run ends when the loop
\* returns or the script is used up.
NoRun == [ran |-> FALSE]
ScriptNames(turn) == [i \in 1..turn.calls |-> "bash"]
RECURSIVE RunGrok(_, _, _)
RunGrok(l, turns, k) ==
  CASE l.lpc = "provider" ->
         IF k > Len(turns) THEN l
         ELSE RunGrok(GrokOnResponse(OnUsage(l, DefaultUsage), ScriptNames(turns[k])), turns, k + 1)
    [] l.lpc = "tool" -> RunGrok(GrokOnToolDone(l, turns[k - 1].ok), turns, k)
    [] OTHER -> l
RECURSIVE RunClaude(_, _, _)
RunClaude(l, turns, k) ==
  CASE l.lpc = "provider" ->
         IF k > Len(turns) THEN l
         ELSE RunClaude(ClaudeOnResponse(OnUsage(l, DefaultUsage), turns[k].calls > 0,
                                         ScriptNames(turns[k])), turns, k + 1)
    [] l.lpc = "tool" -> RunClaude(ClaudeOnToolDone(l, turns[k - 1].ok), turns, k)
    [] OTHER -> l
\* what the claim compares of a run
SyntheticAt(l) ==
  LET tm == SelectSeq(l.loopMessages, LAMBDA m : m.role = "tool")
  IN  {i \in 1..Len(tm) : tm[i].content = LimitMsg}
RunSummary(l) ==
  [ran |-> TRUE, lpc |-> l.lpc, executed |-> l.executed, providerCalls |-> l.providerCalls,
   synthetic |-> SyntheticAt(l),
   sentinels |-> SelectSeq(l.accumulatedText, LAMBDA t : t \in {CallsNote, RoundsNote})]
StartOfLoop == WhileCond([FreshLoop EXCEPT !.loopMessages = <<PromptMsg>>])

\* both loops are given the script
RunBothLoops ==
  /\ ~loopOutcome.ran
  /\ loopOutcome' = [ran |-> TRUE,
                     grok |-> RunSummary(RunGrok(StartOfLoop, turnScript, 1)),
                     claude |-> RunSummary(RunClaude(StartOfLoop, turnScript, 1))]
  /\ UNCHANGED <<chanSide, pathVars, guardVars, resultVars, managerVars, hostView, sideDM, sideBroadcast,
                 turnScript, dialog>>

(* --------------------------- Agent.sendMessage ------------------------- *)
\* what sendMessage hands to processPrompt as the messages option
HistoryOption(a, includeHistory) == IF includeHistory THEN messages[a] ELSE <<>>

\* whether the caller's onToolCall / onToolResult / onPermissionRequired reach
\* processPrompt: sendMessage builds the options anew from model, directory,
\* mode and messages only
ForwardsCallbacks(callerPassesCallbacks) == FALSE

\* the loop invoked onToolCall for agent a: the channel's callback, when it is
\* the one the loop holds, sets the status to 'tool'
StatusOnToolCall(st, a, bound) == IF bound THEN [st EXCEPT ![a] = "tool"] ELSE st

\* the two pushes after processPrompt returned
PushExchangeReplyFirst(hist, msg, response, includeHistory) ==
  hist \o <<[role |-> "assistant", content |-> response],
            [role |-> "user", content |-> msg]>>
PushExchange(hist, msg, response, includeHistory) ==
  hist \o <<[role |-> "user", content |-> msg],
            [role |-> "assistant", content |-> response]>>

Entry(a, content) ==
  [agentId |-> a, agentName |-> AgentName(a), role |-> AgentRole(a), content |-> content]
UserEntry(m) ==
  [agentId |-> NullId, agentName |-> "null", role |-> "user", content |-> <<m>>]

SetLoop(l) ==
  /\ lpc' = l.lpc
  /\ totalRounds' = l.totalRounds
  /\ totalToolCalls' = l.totalToolCalls
  /\ accumulatedText' = l.accumulatedText
  /\ toolCalls' = l.toolCalls
  /\ tcIdx' = l.tcIdx
  /\ toolResults' = l.toolResults
  /\ loopMessages' = l.loopMessages
  /\ cbLog' = l.cbLog
  /\ providerCalls' = l.providerCalls
  /\ executed' = l.executed
  /\ lastUsage' = l.lastUsage
  /\ responseUsage' = l.responseUsage
  /\ toolLog' = l.toolLog

\* sharedMessages.push of an agent's reply
AppendReplyUnshift(shared, a, response) == <<Entry(a, response)>> \o shared
AppendReply(shared, a, response) == Append(shared, Entry(a, response))

\* sharedMessages.push of the "Error: ..." entry in the catch block
ErrorMsg == <<"Error: ", "API Error: provider">>
AppendErrorDropped(shared, a) == shared
AppendError(shared, a) == Append(shared, Entry(a, ErrorMsg))

\* A reply text outside the loop that produced it: the transcript, the DM
\* history and the response records keep it as one opaque piece.
ReplyText(text) == <<"reply">>

\* (a variant in which a DM reply is posted to the team channel as well)
ReturnedPostsDM(response) ==
  LET a == req.agent
  IN  /\ messages' = [messages EXCEPT
                        ![a] = PushExchange(@, req.msg, response, req.includeHistory)]
      /\ status' = [status EXCEPT ![a] = "idle"]
      /\ lastFailed' = [lastFailed EXCEPT ![a] = FALSE]
      /\ req' = NoReq
      /\ sharedMessages' = AppendReply(sharedMessages, a, response)
      /\ IF req.kind = "broadcast"
           THEN /\ events' = Append(events, <<"agent-responded", a>>)
                /\ responses' = Append(responses,
                                       [agent |-> a, response |-> response, error |-> FALSE])
                /\ bpc' = "loop"
                /\ bIdx' = bIdx + 1
                /\ UNCHANGED <<bMsg, bStart, prompts>>
           ELSE UNCHANGED <<bpc, bIdx, bMsg, bStart, responses, prompts, events>>

\* processPrompt returned `response`: the rest of sendMessage, then the rest
\* of the caller's try block (broadcastToAll or handleAgentDM)
Returned(response) ==
  LET a == req.agent
  IN  /\ messages' = [messages EXCEPT
                        ![a] = PushExchange(@, req.msg, response, req.includeHistory)]
      /\ status' = [status EXCEPT ![a] = "idle"]
      /\ lastFailed' = [lastFailed EXCEPT ![a] = FALSE]
      /\ req' = NoReq
      /\ IF req.kind = "broadcast"
           THEN /\ sharedMessages' = AppendReply(sharedMessages, a, response)
                /\ events' = Append(events, <<"agent-responded", a>>)
                /\ responses' = Append(responses,
                                       [agent |-> a, response |-> response, error |-> FALSE])
                /\ bpc' = "loop"
                /\ bIdx' = bIdx + 1
                /\ UNCHANGED <<bMsg, bStart, prompts>>
           ELSE UNCHANGED chanVars

\* processPrompt threw: sendMessage's catch, then the caller's catch

Threw ==
  LET a == req.agent
  IN  /\ status' = [status EXCEPT ![a] = "error"]
      /\ lastFailed' = [lastFailed EXCEPT ![a] = TRUE]
      /\ req' = NoReq
      /\ UNCHANGED messages
      /\ IF req.kind = "broadcast"
           THEN /\ sharedMessages' = AppendError(sharedMessages, a)
                /\ events' = Append(events, <<"agent-error", a>>)
                /\ responses' = Append(responses,
                                       [agent |-> a, response |-> ErrorMsg, error |-> TRUE])
                /\ bpc' = "loop"
                /\ bIdx' = bIdx + 1
                /\ UNCHANGED <<bMsg, bStart, prompts>>
           ELSE UNCHANGED chanVars

\* the loop moved to l: either it awaits again, or the request is over
Continue(l) ==
  /\ SetLoop(l)
  /\ CASE l.lpc = "returned" -> Returned(ReplyText(l.accumulatedText))
       [] l.lpc = "threw" -> Threw
       [] l.lpc = "tool" ->
            /\ status' = StatusOnToolCall(status, req.agent, req.callbacks)
            /\ UNCHANGED <<messages, lastFailed, chanVars, req>>
       [] OTHER -> UNCHANGED <<agentVars, chanVars, req>>
  /\ UNCHANGED <<cfgVars, nRequests, histBefore, hostError, otherVars>>

(* ------------------------------- actions ------------------------------- *)
HostIdle == bpc = "idle" /\ req.kind = "none"

\* the guard at the head of broadcastToAll and the error it throws
NoAgentsError == <<"No agents", " in team. Add agents first.">>
EmptyTeamThrowsNever(agents) == FALSE
EmptyTeamThrows(agents) == Len(agents) = 0

\* the for-of loop takes its next agent only when the awaited sendMessage of
\* the previous one has settled
LoopAtNextAgentFanOut(pc) == pc \in {"loop", "await"}
LoopAtNextAgent(pc) == pc = "loop"

\* TeamChannel.broadcastToAll, up to the for loop
BroadcastStart(m, limit) ==
  /\ HostIdle
  /\ nRequests < limit
  /\ nRequests' = nRequests + 1
  /\ histBefore' = messages
  /\ IF EmptyTeamThrows(team)
       THEN /\ hostError' = NoAgentsError
            /\ UNCHANGED chanVars
       ELSE /\ hostError' = <<>>
            /\ sharedMessages' = Append(sharedMessages, UserEntry(m))
            /\ bStart' = Len(sharedMessages)
            /\ bMsg' = m
            /\ responses' = <<>>
            /\ prompts' = <<>>
            /\ events' = <<>>
            /\ bIdx' = 1
            /\ bpc' = "loop"
  /\ UNCHANGED <<agentVars, cfgVars, loopVars, req, otherVars>>

\* one iteration of the for loop, up to the await inside sendMessage
BroadcastNextAgent ==
  /\ LoopAtNextAgent(bpc)
  /\ bIdx <= Len(team)
  /\ LET a == team[bIdx]
         contextPrompt == buildContextPrompt(sharedMessages, bMsg, a)
     IN  /\ events' = Append(events, <<"agent-thinking", a>>)
         /\ status' = [status EXCEPT ![a] = "thinking"]
         /\ prompts' = Append(prompts, contextPrompt)
         /\ req' = [kind |-> "broadcast", agent |-> a, includeHistory |-> FALSE,
                    msg |-> contextPrompt, callbacks |-> ForwardsCallbacks(TRUE)]
         /\ SetLoop(processPrompt(a, contextPrompt, HistoryOption(a, FALSE)))
  /\ bpc' = "await"
  /\ UNCHANGED <<sharedMessages, bIdx, bMsg, bStart, responses, messages, lastFailed,
                 cfgVars, nRequests, histBefore, hostError, otherVars>>

\* the for loop is over: return responses
BroadcastDone ==
  /\ bpc = "loop"
  /\ bIdx > Len(team)
  /\ bpc' = "idle"
  /\ UNCHANGED <<sharedMessages, bIdx, bMsg, bStart, responses, prompts, events,
                 agentVars, cfgVars, loopVars, req, nRequests, histBefore, hostError,
                 otherVars>>

\* AgentTeamsTUI.handleAgentDM, up to the await inside sendMessage
DMStart(a, m, limit) ==
  /\ HostIdle
  /\ nRequests < limit
  /\ a \in 1..Len(team)
  /\ nRequests' = nRequests + 1
  /\ histBefore' = messages
  /\ status' = [status EXCEPT ![a] = "thinking"]
  /\ req' = [kind |-> "dm", agent |-> a, includeHistory |-> TRUE, msg |-> <<m>>,
             callbacks |-> ForwardsCallbacks(FALSE)]
  /\ SetLoop(processPrompt(a, <<m>>, HistoryOption(a, TRUE)))
  /\ UNCHANGED <<chanVars, messages, lastFailed, cfgVars, hostError, otherVars>>

ProviderRespondOpenAIFormatLoops(toolUse, names) ==
  /\ lpc = "provider"
  /\ LET p == provider[req.agent]
         l == OnUsage(LoopState, DefaultUsage)
     IN  CASE p \in {"grok", "ollama"} ->
                toolUse = (Len(names) > 0) /\ Continue(GrokOnResponse(l, names))
           [] p = "claude" -> (toolUse \/ names = <<>>)
                              /\ Continue(ClaudeOnResponse(l, toolUse, names))
           [] OTHER -> toolUse = (Len(names) > 0) /\ Continue(SinglePassOnResponse(l))

\* the awaited client.post resolves with an assistant turn; what a single-pass
\* handler reads of it is the text, whatever else the turn carries
ProviderRespondWith(toolUse, names, usage) ==
  /\ lpc = "provider"
  /\ LET p == provider[req.agent]
         l == OnUsage(LoopState, usage)
     IN  CASE p = "grok" -> toolUse = (Len(names) > 0) /\ Continue(GrokOnResponse(l, names))
           [] p = "claude" -> (toolUse \/ names = <<>>)
                              /\ Continue(ClaudeOnResponse(l, toolUse, names))
           [] OTHER -> toolUse = (Len(names) > 0) /\ Continue(SinglePassOnResponse(l))

\* the same, the response reporting its usage
ProviderRespond(toolUse, names) == ProviderRespondWith(toolUse, names, DefaultUsage)

\* the awaited client.post resolves with a turn of the OpenAI format, one of
\* whose tool calls has an arguments string that JSON.parse rejects (the
\* Anthropic format carries the input as an object)
ProviderRespondMalformed(names, k) ==
  /\ lpc = "provider"
  /\ provider[req.agent] = "grok"
  /\ k \in 1..Len(names)
  /\ Continue(GrokExec(MalformedArgs(OnTurn(OnUsage(LoopState, DefaultUsage), names), k), 1))

\* the awaited client.post rejects
ProviderFail ==
  /\ lpc = "provider"
  /\ Continue([LoopState EXCEPT !.lpc = "threw"])

\* the awaited _dispatchTool resolves (ok) or rejects (~ok)
ToolReturn(ok) ==
  /\ lpc = "tool"
  /\ IF provider[req.agent] = "grok"
       THEN Continue(GrokOnToolDone(LoopState, ok))
       ELSE Continue(ClaudeOnToolDone(LoopState, ok))

\* ---------------------------------------------------------------------------
\* A DM sent while another request awaits.  _onInputDone clears _inputActive
\* before it awaits handleInput, the number keys switch the view and Tab
\* starts a new readInput, so handleAgentDM can begin while a broadcast or an
\* earlier DM awaits its provider or a tool.  The tool loop of this second
\* activation lives in the locals of its own processPrompt call; the model
\* keeps its request and lets it settle either way.
\* AgentTeamsTUI.handleAgentDM, up to the await inside sendMessage
HandleAgentDMWhileAwaiting(a, m, limit) ==
  /\ req.kind # "none"
  /\ bpc \in {"idle", "await"}
  /\ sideDM = NoReq
  /\ nRequests < limit
  /\ a \in 1..Len(team)
  /\ nRequests' = nRequests + 1
  /\ status' = [status EXCEPT ![a] = "thinking"]
  /\ sideDM' = [kind |-> "dm", agent |-> a, includeHistory |-> TRUE, msg |-> <<m>>,
                callbacks |-> ForwardsCallbacks(FALSE)]
  /\ UNCHANGED <<chanVars, messages, lastFailed, cfgVars, loopVars, req, histBefore,
                 hostError, pathVars, guardVars, resultVars, managerVars, hostView,
                 sideBroadcast, turnScript, loopOutcome,
                 dialog>>

\* its processPrompt resolved (ok) or rejected (~ok): the rest of sendMessage
\* and of handleAgentDM
SideDMSettles(ok) ==
  /\ sideDM.kind = "dm"
  /\ bpc \in {"idle", "await"}
  /\ LET a == sideDM.agent
     IN  IF ok
           THEN /\ messages' = [messages EXCEPT
                                  ![a] = PushExchange(@, sideDM.msg, ReplyText(<<>>), TRUE)]
                /\ status' = [status EXCEPT ![a] = "idle"]
                /\ lastFailed' = [lastFailed EXCEPT ![a] = FALSE]
           ELSE /\ status' = [status EXCEPT ![a] = "error"]
                /\ lastFailed' = [lastFailed EXCEPT ![a] = TRUE]
                /\ UNCHANGED messages
  /\ sideDM' = NoReq
  /\ UNCHANGED <<chanVars, cfgVars, loopVars, req, nRequests, histBefore, hostError,
                 pathVars, guardVars, resultVars, managerVars, hostView,
                 sideBroadcast, turnScript, loopOutcome,
                 dialog>>

\* ---------------------------------------------------------------------------
\* AgentConfigDialog, the wizard that adds or edits an agent.  `editing` is
\* the id of editingAgent, NoAgent for null; `emitted` lists the events the
\* dialog emitted since it was last shown.  No Ollama server answers, so the
\* model list of ollama stays empty.
NoAgent == <<>>
PROVIDERS == <<"grok", "groq", "gemini", "claude", "ollama">>
PROVIDER_MODELS ==
  [p \in {"grok", "groq", "gemini", "claude", "ollama"} |->
     CASE p = "grok" -> <<"grok-4-1-fast-reasoning", "grok-4-1-fast-non-reasoning",
                          "grok-4-latest", "grok-4", "grok-3-latest", "grok-3-fast",
                          "grok-3-mini", "grok-3-mini-fast">>
       [] p = "groq" -> <<"llama-3.3-70b-versatile", "llama-3.1-8b-instant",
                          "mixtral-8x7b-32768", "gemma2-9b-it">>
       [] p = "gemini" -> <<"gemini-2.0-flash", "gemini-1.5-pro", "gemini-1.5-flash">>
       [] p = "claude" -> <<"claude-opus-4-6", "claude-opus-4-5-20251101",
                           "claude-sonnet-4-5-20250929", "claude-haiku-4-5-20251001">>
       [] OTHER -> <<>>]
NoModelsItem == "(no models available)"
EmptyFields == [name |-> "", role |-> "", provider |-> "grok", model |-> "", systemPrompt |-> ""]
NoDialog ==
  [visible |-> FALSE, step |-> 0, editing |-> NoAgent, fields |-> EmptyFields,
   emitted |-> <<>>]

\* array[index] || fallback, for a zero-based index
ItemOr(array, index, fallback) ==
  IF index + 1 <= Len(array) THEN array[index + 1] ELSE fallback

hide(d) == [d EXCEPT !.visible = FALSE, !.emitted = Append(@, <<"closed">>)]

save(d) ==
  IF d.fields.name = ""
    THEN d
    ELSE LET model == IF d.fields.model = "" \/ d.fields.model = NoModelsItem
                        THEN ItemOr(PROVIDER_MODELS[d.fields.provider], 0,
                                    "grok-4-1-fast-reasoning")
                        ELSE d.fields.model
             agentConfig ==
               [id |-> d.editing, name |-> d.fields.name, role |-> d.fields.role,
                provider |-> d.fields.provider, model |-> model,
                systemPrompt |-> d.fields.systemPrompt]
             event == IF d.editing # NoAgent THEN "edit-agent" ELSE "add-agent"
         IN  hide([d EXCEPT !.fields.model = model,
                            !.emitted = Append(@, <<event, agentConfig>>)])

OnTextSubmit(d, value) ==
  CASE d.step = 0 ->
         IF value = "" /\ d.fields.name = ""
           THEN d
           ELSE [d EXCEPT !.fields.name = IF value # "" THEN value ELSE @, !.step = 1]
    [] d.step = 1 -> [d EXCEPT !.fields.role = IF value # "" THEN value ELSE @, !.step = 2]
    [] d.step = 4 ->
         [d EXCEPT !.fields.systemPrompt = IF value # "" THEN value ELSE @, !.step = 5]
    [] OTHER -> d

OnListSelect(d, index) ==
  CASE d.step = 2 -> [d EXCEPT !.fields.provider = ItemOr(PROVIDERS, index, "grok"),
                               !.step = 3]
    [] d.step = 3 ->
         LET models == PROVIDER_MODELS[d.fields.provider]
         IN  [d EXCEPT !.fields.model = ItemOr(models, index, ItemOr(models, 0, "")),
                       !.step = 4]
    [] d.step = 5 -> IF index = 0 THEN save(d) ELSE hide(d)
    [] OTHER -> d

OnBackUnguarded(d) == [d EXCEPT !.step = @ - 1]
OnBack(d) == IF d.step > 0 THEN [d EXCEPT !.step = @ - 1] ELSE hide(d)

DialogFrame ==
  UNCHANGED <<chanSide, pathVars, guardVars, resultVars, managerVars, hostView, sideDM,
              sideBroadcast, turnScript, loopOutcome>>

\* show(existingAgent): Ctrl+A with no agent, Ctrl+E with the selected one
show(existing) ==
  /\ ~dialog.visible
  /\ dialog' =
       [visible |-> TRUE, step |-> 0, emitted |-> <<>>,
        editing |-> IF existing.null THEN NoAgent ELSE existing.id,
        fields |-> IF existing.null
                     THEN EmptyFields
                     ELSE [name |-> existing.name, role |-> existing.role,
                           provider |-> existing.provider, model |-> existing.model,
                           systemPrompt |-> existing.systemPrompt]]
  /\ DialogFrame

\* the handlers of the shown dialog's text box and list
handleTextSubmit(value) ==
  /\ dialog.visible
  /\ dialog' = OnTextSubmit(dialog, value)
  /\ DialogFrame
handleListSelect(index) ==
  /\ dialog.visible
  /\ dialog' = OnListSelect(dialog, index)
  /\ DialogFrame
handleBack ==
  /\ dialog.visible
  /\ dialog' = OnBack(dialog)
  /\ DialogFrame

\* ---------------------------------------------------------------------------
\* A team message sent while another request awaits: handleTeamChannelMessage
\* begins a second broadcastToAll on the same channel, in the way a DM can
\* begin.  It pushes to the same sharedMessages and emits on the same channel;
\* its responses, its loop index and its prompts are locals of the activation.
NoBroadcast ==
  [pc |-> "none", idx |-> 0, msg |-> "", start |-> 0, responses |-> <<>>, prompts |-> <<>>]

\* handleTeamChannelMessage and broadcastToAll, up to the await inside the
\* sendMessage of the first agent
HandleTeamChannelMessageWhileAwaiting(m, limit) ==
  /\ req.kind # "none"
  /\ bpc \in {"idle", "await"}
  /\ sideBroadcast.pc = "none"
  /\ nRequests < limit
  /\ Len(team) > 0
  /\ nRequests' = nRequests + 1
  /\ LET shared == Append(sharedMessages, UserEntry(m))
         a == team[1]
     IN  /\ sharedMessages' = shared
         /\ events' = Append(events, <<"agent-thinking", a>>)
         /\ status' = [status EXCEPT ![a] = "thinking"]
         /\ sideBroadcast' =
              [pc |-> "await", idx |-> 1, msg |-> m, start |-> Len(sharedMessages),
               responses |-> <<>>, prompts |-> <<buildContextPrompt(shared, m, a)>>]
  /\ UNCHANGED <<bpc, bIdx, bMsg, bStart, responses, prompts, messages, lastFailed,
                 cfgVars, loopVars, req, histBefore, hostError, pathVars, guardVars,
                 resultVars, managerVars, hostView, sideDM, turnScript, loopOutcome,
                 dialog>>

\* the awaited sendMessage resolved (ok) or rejected (~ok): the rest of the
\* iteration, then the next iteration up to its await, or the return
SideBroadcastSettles(ok) ==
  /\ sideBroadcast.pc = "await"
  /\ bpc \in {"idle", "await"}
  /\ LET a == team[sideBroadcast.idx]
         response == IF ok THEN ReplyText(<<>>) ELSE ErrorMsg
         shared == IF ok THEN AppendReply(sharedMessages, a, response)
                         ELSE AppendError(sharedMessages, a)
         next == sideBroadcast.idx + 1
         more == next <= Len(team)
         settled == [status EXCEPT ![a] = IF ok THEN "idle" ELSE "error"]
     IN  /\ sharedMessages' = shared
         /\ messages' =
              IF ok THEN [messages EXCEPT
                            ![a] = PushExchange(@, sideBroadcast.prompts[sideBroadcast.idx],
                                                response, FALSE)]
                    ELSE messages
         /\ lastFailed' = [lastFailed EXCEPT ![a] = ~ok]
         /\ events' = events
                        \o <<<<IF ok THEN "agent-responded" ELSE "agent-error", a>>>>
                        \o (IF more THEN <<<<"agent-thinking", team[next]>>>> ELSE <<>>)
         /\ status' = IF more THEN [settled EXCEPT ![team[next]] = "thinking"] ELSE settled
         /\ sideBroadcast' =
              [sideBroadcast EXCEPT
                 !.responses = Append(@, [agent |-> a, response |-> response, error |-> ~ok]),
                 !.idx = next,
                 !.pc = IF more THEN "await" ELSE "done",
                 !.prompts = IF more
                               THEN Append(@, buildContextPrompt(shared, sideBroadcast.msg,
                                                                 team[next]))
                               ELSE @]
  /\ UNCHANGED <<bpc, bIdx, bMsg, bStart, responses, prompts, cfgVars, loopVars, req,
                 nRequests, histBefore, hostError, pathVars, guardVars, resultVars,
                 managerVars, hostView, sideDM, turnScript, loopOutcome,
                 dialog>>

\* ---------------------------------------------------------------------------
\* TeamChannel.getSharedMessages and clearHistory.  What the host holds is an
\* array object: either one of its own (`alias` false, with its elements) or
\* the channel's sharedMessages array itself (`alias` true).  The elements are
\* the transcript's entries; the host reads them and never writes their fields.
NoView == [held |-> FALSE, alias |-> FALSE, items |-> <<>>]
HostEntry == [agentId |-> NullId, agentName |-> "null", role |-> "user", content |-> <<"host">>]

getSharedMessagesAlias(shared) == [held |-> TRUE, alias |-> TRUE, items |-> <<>>]
\* [...this.sharedMessages]
getSharedMessages(shared) == [held |-> TRUE, alias |-> FALSE, items |-> shared]

\* push, pop and an element assignment on an array
ArrayOps == {"push", "pop", "set"}
ApplyArrayOp(op, arr) ==
  CASE op = "push" -> Append(arr, HostEntry)
    [] op = "pop" -> IF arr = <<>> THEN arr ELSE SubSeq(arr, 1, Len(arr) - 1)
    [] OTHER -> IF arr = <<>> THEN arr ELSE [arr EXCEPT ![1] = HostEntry]

GetSharedMessages ==
  /\ bpc \in {"idle", "await"}
  /\ hostView' = getSharedMessages(sharedMessages)
  /\ hostView' # hostView
  /\ UNCHANGED <<chanSide, pathVars, guardVars, resultVars, managerVars, sideDM, sideBroadcast,
                 turnScript, loopOutcome,
                 dialog>>

\* the host changes the array it holds
MutateView(op) ==
  /\ bpc \in {"idle", "await"}
  /\ hostView.held
  /\ IF hostView.alias
       THEN /\ op = "push" => Len(sharedMessages) < MaxViewLen
            /\ sharedMessages' = ApplyArrayOp(op, sharedMessages)
            /\ UNCHANGED hostView
       ELSE /\ op = "push" => Len(hostView.items) < MaxViewLen
            /\ hostView' = [hostView EXCEPT !.items = ApplyArrayOp(op, @)]
            /\ hostView' # hostView
            /\ UNCHANGED sharedMessages
  /\ UNCHANGED <<bpc, bIdx, bMsg, bStart, responses, prompts, events, agentVars, cfgVars,
                 loopVars, req, nRequests, histBefore, hostError,
                 pathVars, guardVars, resultVars, managerVars, sideDM, sideBroadcast,
                 turnScript, loopOutcome,
                 dialog>>

\* this.sharedMessages = []
ClearHistory ==
  /\ bpc \in {"idle", "await"}
  /\ sharedMessages # <<>>
  /\ sharedMessages' = <<>>
  /\ UNCHANGED <<bpc, bIdx, bMsg, bStart, responses, prompts, events, agentVars, cfgVars,
                 loopVars, req, nRequests, histBefore, hostError, otherVars>>

\* ---------------------------------------------------------------------------
\* The host's team edits.  The key handlers Ctrl-A and Ctrl-E return early
\* only when a dialog is open or readInput is pending; _onInputDone clears
\* _inputActive before it awaits handleInput, and Tab starts a new readInput
\* whatever handleInput is doing, so the edits are not tied to HostIdle.
\* getAgents returns currentTeam.agents itself: `team` is the array the for-of
\* loop of a running broadcast walks by index.
KeyHandlerReturnsEarly(dialogOpen, inputActive) == dialogOpen \/ inputActive
\* a handler of the host runs only while no other code does: between requests,
\* or while broadcastToAll is suspended at its await
EventLoopFree == bpc \in {"idle", "await"}

\* 'add-agent': TeamManager.addAgent pushes a new agent
HostAddAgent(p) ==
  /\ EventLoopFree
  /\ ~KeyHandlerReturnsEarly(FALSE, FALSE)
  /\ Len(provider) < MaxAgents
  /\ LET a == Len(provider) + 1
     IN  /\ team' = Append(team, a)
         /\ provider' = Append(provider, p)
         /\ status' = Append(status, "idle")
         /\ messages' = Append(messages, <<>>)
         /\ lastFailed' = Append(lastFailed, FALSE)
  /\ UNCHANGED <<chanVars, maxRounds, maxToolCallsPerRound, loopVars, req, nRequests,
                 histBefore, hostError, otherVars>>

\* '/agent remove <id>': TeamManager.removeAgent splices the agent out
HostRemoveAgent(a) ==
  /\ EventLoopFree
  /\ \E index \in 1..Len(team) :
       /\ team[index] = a
       /\ team' = SubSeq(team, 1, index - 1) \o SubSeq(team, index + 1, Len(team))
  /\ UNCHANGED <<chanVars, agentVars, provider, maxRounds, maxToolCallsPerRound, loopVars,
                 req, nRequests, histBefore, hostError, otherVars>>

\* 'edit-agent': the fields are overwritten and init() builds a new client; an
\* agent with a request in flight is left out, its request runs on the old one
HostEditAgent(a, p) ==
  /\ EventLoopFree
  /\ ~KeyHandlerReturnsEarly(FALSE, FALSE)
  /\ \E index \in 1..Len(team) : team[index] = a
  /\ req.agent # a
  /\ provider[a] # p
  /\ provider' = [provider EXCEPT ![a] = p]
  /\ UNCHANGED <<chanVars, agentVars, team, maxRounds, maxToolCallsPerRound, loopVars,
                 req, nRequests, histBefore, hostError, otherVars>>

\* ---------------------------------------------------------------------------
\* ToolSandbox.validatePath and the file tools.  A path is a sequence of
\* segments, a segment a sequence of characters; the string of a path puts a
\* "/" before every segment, so startsWith compares characters as the code does.
DotDot == <<".", ".">>
SegmentNames == {<<"p">>, <<"p", "p">>, <<"s">>, <<"l">>, <<"x">>}
projectRoot == << <<"p">> >>
allowedPaths == {projectRoot}

\* the filesystem: /p/s and /pp/s are files, /p/l is a symlink to /pp
Dirs == {<<>>, << <<"p">> >>, << <<"p", "p">> >>}
Files == {<< <<"p">>, <<"s">> >>, << <<"p", "p">>, <<"s">> >>}
Symlinks == {<< <<"p">>, <<"l">> >>}
LinkTarget(p) == << <<"p", "p">> >>

PathString(p) ==
  IF p = <<>> THEN <<"/">>
  ELSE Flatten([i \in 1..Len(p) |-> <<"/">> \o p[i]])
startsWith(str, prefix) ==
  Len(prefix) <= Len(str) /\ SubSeq(str, 1, Len(prefix)) = prefix

RECURSIVE NormalizeFrom(_, _)
NormalizeFrom(acc, rest) ==
  IF rest = <<>> THEN acc
  ELSE IF Head(rest) = DotDot
       THEN NormalizeFrom(IF acc = <<>> THEN acc ELSE SubSeq(acc, 1, Len(acc) - 1),
                          Tail(rest))
       ELSE NormalizeFrom(Append(acc, Head(rest)), Tail(rest))
resolve(root, filePath) ==
  NormalizeFrom(<<>>, IF filePath.abs THEN filePath.segs ELSE root \o filePath.segs)
dirname(p) == IF p = <<>> THEN p ELSE SubSeq(p, 1, Len(p) - 1)
basename(p) == p[Len(p)]

RECURSIVE realpathFrom(_, _)
realpathFrom(acc, rest) ==
  IF rest = <<>> THEN [ok |-> TRUE, path |-> acc]
  ELSE LET nxt == Append(acc, Head(rest))
           tgt == IF nxt \in Symlinks THEN LinkTarget(nxt) ELSE nxt
       IN  IF tgt \in Dirs \/ (tgt \in Files /\ Len(rest) = 1)
           THEN realpathFrom(tgt, Tail(rest))
           ELSE [ok |-> FALSE, path |-> <<>>]
realpathSync(p) == realpathFrom(<<>>, p)

validatePath(filePath) ==
  LET resolved == resolve(projectRoot, filePath)
      real == realpathSync(resolved)
      realParent == realpathSync(dirname(resolved))
      realPath == IF real.ok THEN real.path
                  ELSE IF realParent.ok
                       THEN Append(realParent.path, basename(resolved))
                       ELSE resolved
      allowed == \E ap \in allowedPaths :
                   startsWith(PathString(realPath), PathString(ap))
  IN  [allowed |-> allowed, resolvedPath |-> realPath]

\* where the operating system lands when it opens p: symlinks followed along
\* the part that exists, the rest appended
RECURSIVE LocateFrom(_, _)
LocateFrom(acc, rest) ==
  IF rest = <<>> THEN acc
  ELSE LET nxt == Append(acc, Head(rest))
       IN  LocateFrom(IF nxt \in Symlinks THEN LinkTarget(nxt) ELSE nxt, Tail(rest))
Locate(p) == LocateFrom(<<>>, p)
UnderFile(p) == \E i \in 1..(Len(p) - 1) : SubSeq(p, 1, i) \in Files

NoOutcome == [result |-> "none", op |-> "none", at |-> <<>>]
Blocked == [result |-> "Blocked: ", op |-> "none", at |-> <<>>]
Failed == [result |-> "error", op |-> "none", at |-> <<>>]

executeRead(filePath) ==
  LET validation == validatePath(filePath)
      at == Locate(validation.resolvedPath)
  IN  IF ~validation.allowed THEN Blocked
      ELSE IF at \in Files THEN [result |-> "content", op |-> "read", at |-> at]
      ELSE Failed

executeWrite(filePath) ==
  LET validation == validatePath(filePath)
      at == Locate(validation.resolvedPath)
  IN  IF ~validation.allowed THEN Blocked
      ELSE IF at \in Dirs \/ UnderFile(at) THEN Failed
      ELSE [result |-> "File written successfully", op |-> "write", at |-> at]

PathSegs == UNION {[1..n -> SegmentNames \cup {DotDot}] : n \in 0..MaxPathLen}
PathInputs == [tool : {"read", "write"}, abs : BOOLEAN, segs : PathSegs]
NoPath == [tool |-> "none", abs |-> FALSE, segs |-> <<>>]

DispatchRead ==
  /\ pathIn.tool = "read" /\ pathOut = NoOutcome
  /\ pathOut' = executeRead(pathIn)
  /\ UNCHANGED <<chanSide, pathIn, guardVars, resultVars, managerVars, viewVars>>

DispatchWrite ==
  /\ pathIn.tool = "write" /\ pathOut = NoOutcome
  /\ pathOut' = executeWrite(pathIn)
  /\ UNCHANGED <<chanSide, pathIn, guardVars, resultVars, managerVars, viewVars>>


\* ---------------------------------------------------------------------------
\* ToolSandbox.validateBash / validateUrl and the tools they guard.  A command
\* is the sequence of its words; a host name is the sequence of the pieces the
\* patterns tell apart (labels, octets, dots, colons, brackets).
Words == {"ls", "rm", "-rf", "/", "mkfs", "shutdown", "sudo", "curl", "|", "sh",
          "npm", "install", "wget", "nc", "ssh", "scp", "sftp",
          "pip", "pip3", "apt", "apt-get", "yum", "brew"}
Commands == UNION {[1..n -> Words] : n \in 0..MaxCmdLen}

HasWord(w, x) == \E i \in 1..Len(w) : w[i] = x
\* the word x followed by white space or a word of ys
Followed(w, xs, ys) == \E i \in 1..(Len(w) - 1) : w[i] \in xs /\ w[i + 1] \in ys
\* x, then anything, then a pipe straight into a shell
PipedToShell(w, x) ==
  \E i \in 1..Len(w), j \in 1..(Len(w) - 1) :
    i < j /\ w[i] = x /\ w[j] = "|" /\ w[j + 1] \in {"sh", "bash"}

\* this.blockedCommands, the patterns that the words above can match
blockedCommands == {"rm", "mkfs", "shutdown", "curl|sh", "sudo", "|curl"}
TestBlocked(pattern, w) ==
  CASE pattern = "rm" ->
         \E i \in 1..(Len(w) - 2) :
           w[i] = "rm" /\ w[i + 1] \in {"-r", "-rf", "--recursive"} /\ w[i + 2] \in {"/", "~"}
    [] pattern = "mkfs" -> HasWord(w, "mkfs")
    [] pattern = "shutdown" -> HasWord(w, "shutdown")
    [] pattern = "curl|sh" -> PipedToShell(w, "curl")
    [] pattern = "sudo" -> Followed(w, {"sudo", "su"}, Words)
    [] pattern = "|curl" -> Followed(w, {";", "&", "|"}, {"curl", "wget", "nc", "ncat"})

networkPatterns == {"curl", "wget", "nc", "ncat", "ssh", "scp", "sftp"}
installPatterns == {"npm", "pip", "apt", "yum", "brew"}
\* /\bnpm\s+install\b/ and the like; for apt the pattern is /\bapt\s+(install|get)\b/
TestInstall(pattern, w) ==
  IF pattern = "apt" THEN Followed(w, {"apt"}, {"install", "get"})
  ELSE Followed(w, {pattern}, {"install"})

validateBashIn(mode, command) ==
  IF \E pattern \in blockedCommands : TestBlocked(pattern, command) THEN FALSE
  ELSE IF mode /\ \E x \in networkPatterns : HasWord(command, x) THEN FALSE
  ELSE IF mode /\ \E pattern \in installPatterns : TestInstall(pattern, command) THEN FALSE
  ELSE TRUE
validateBash(command) == validateBashIn(safeMode, command)

\* hosts as the URL parser holds them
FirstOctets == {"127", "10", "172", "192", "169", "8"}
SecondOctets == {"0", "16", "32", "168", "254"}
Hosts ==
  {[kind |-> "name", text |-> t] :
     t \in {<<"localhost">>, <<"example", ".", "com">>,
            <<"metadata", ".", "google", ".", "internal">>}}
  \cup {[kind |-> "ipv4", text |-> <<a, ".", b, ".", "0", ".", "1">>] :
          a \in FirstOctets, b \in SecondOctets}
  \cup {[kind |-> "ipv6", text |-> t] :
          t \in {<<"::1">>, <<"fe80", ":", ":1">>, <<"fd00", ":", ":1">>,
                 <<"2001", ":", "db8::1">>}}

\* URL.hostname: an IPv6 address is serialised inside brackets
hostname(h) == IF h.kind = "ipv6" THEN <<"[">> \o h.text \o <<"]">> ELSE h.text

StartsWithPieces(str, prefix) ==
  Len(prefix) <= Len(str) /\ SubSeq(str, 1, Len(prefix)) = prefix
Contains(str, part) ==
  \E i \in 0..(Len(str) - Len(part)) : SubSeq(str, i + 1, i + Len(part)) = part

\* this.blockedHosts, pattern by pattern
blockedHosts == {"localhost", "127.", "0.0.0.0", "10.", "172.16-31.", "192.168.",
                 "169.254.", "::1", "fdxx:", "metadata"}
TestHost(pattern, str) ==
  CASE pattern = "localhost" -> str = <<"localhost">>
    [] pattern = "127." -> StartsWithPieces(str, <<"127", ".">>)
    [] pattern = "0.0.0.0" -> str = <<"0", ".", "0", ".", "0", ".", "0">>
    [] pattern = "10." -> StartsWithPieces(str, <<"10", ".">>)
    [] pattern = "172.16-31." ->
         /\ Len(str) >= 4 /\ SubSeq(str, 1, 2) = <<"172", ".">>
         /\ str[3] \in {ToString(n) : n \in 16..31} /\ str[4] = "."
    [] pattern = "192.168." -> StartsWithPieces(str, <<"192", ".", "168", ".">>)
    [] pattern = "169.254." -> StartsWithPieces(str, <<"169", ".", "254", ".">>)
    [] pattern = "::1" -> str = <<"::1">>
    [] pattern = "fdxx:" -> Len(str) >= 2 /\ str[1] \in {"fd00", "fdff"} /\ str[2] = ":"
    [] pattern = "metadata" ->
         Contains(str, <<"metadata", ".", "google", ".", "internal">>)

Protocols == {"http:", "https:", "file:"}
Ports == {"", "443", "8080"}
Urls == [parses : BOOLEAN, protocol : Protocols, host : Hosts, port : Ports]

validateUrlIn(mode, url) ==
  IF ~url.parses THEN FALSE
  ELSE IF url.protocol \notin {"http:", "https:"} THEN FALSE
  ELSE IF \E pattern \in blockedHosts : TestHost(pattern, hostname(url.host)) THEN FALSE
  ELSE IF mode /\ url.port # "" /\ url.port \notin {"80", "443"} THEN FALSE
  ELSE TRUE
validateUrl(url) == validateUrlIn(safeMode, url)

NoCall == [tool |-> "none"]
NotCalled == [result |-> "none", spawned |-> FALSE, fetched |-> FALSE, settled |-> "none"]
BlockedCall ==
  [result |-> "Blocked: ", spawned |-> FALSE, fetched |-> FALSE, settled |-> "resolved"]
CallInputs ==
  {[tool |-> "bash", command |-> c] : c \in Commands}
  \cup {[tool |-> "webfetch", url |-> u] : u \in Urls}

\* executeBash: `exit` is how the subprocess ended
executeBash(command, exit) ==
  IF ~validateBash(command) THEN BlockedCall
  ELSE CASE exit = "ok" ->
              [result |-> "stdout", spawned |-> TRUE, fetched |-> FALSE, settled |-> "resolved"]
         [] exit = "killed" ->
              [result |-> "Command timed out", spawned |-> TRUE, fetched |-> FALSE,
               settled |-> "resolved"]
         [] OTHER ->
              [result |-> "error", spawned |-> TRUE, fetched |-> FALSE, settled |-> "rejected"]

\* executeWebFetch: `ok` is whether axios.get resolved
executeWebFetch(url, ok) ==
  IF ~validateUrl(url) THEN BlockedCall
  ELSE IF ok
    THEN [result |-> "data", spawned |-> FALSE, fetched |-> TRUE, settled |-> "resolved"]
    ELSE [result |-> "error", spawned |-> FALSE, fetched |-> TRUE, settled |-> "rejected"]

DispatchBash(exit) ==
  /\ callIn.tool = "bash" /\ callOut = NotCalled
  /\ callOut' = executeBash(callIn.command, exit)
  /\ UNCHANGED <<chanSide, pathVars, safeMode, callIn, resultVars, managerVars, viewVars>>

DispatchWebFetch(ok) ==
  /\ callIn.tool = "webfetch" /\ callOut = NotCalled
  /\ callOut' = executeWebFetch(callIn.url, ok)
  /\ UNCHANGED <<chanSide, pathVars, safeMode, callIn, resultVars, managerVars, viewVars>>

\* ---------------------------------------------------------------------------
\* ToolSandbox.truncateResult and the result strings the tool loops deliver.
\* A string is the sequence of its pieces; a piece is the characters
\* from..to-1 of a named source text, so that slicing and concatenation are
\* computed and two strings are equal when they are the same characters.
headSize == 5120
tailSize == 2048
defaultMaxResultSize == 10240
MarkerLen == 19          \* '\n...[TRUNCATED]...\n'
ErrorPrefixLen == 7      \* 'Error: '
BlockedPrefixLen == 9    \* 'Blocked: '
LimitMsgLen == 45        \* '[Tool limit reached: max tool calls exceeded]'

Min(a, b) == IF a < b THEN a ELSE b
Max(a, b) == IF a > b THEN a ELSE b
Text(src, n) == IF n = 0 THEN <<>> ELSE <<[src |-> src, from |-> 0, to |-> n]>>

RECURSIVE StrLen(_)
StrLen(str) ==
  IF str = <<>> THEN 0 ELSE (Head(str).to - Head(str).from) + StrLen(Tail(str))

\* String.prototype.slice(a, b) with 0 <= a
RECURSIVE Slice(_, _, _)
Slice(str, a, b) ==
  IF str = <<>> \/ b <= a THEN <<>>
  ELSE LET h == Head(str)
           n == h.to - h.from
           lo == h.from + Min(Max(a, 0), n)
           hi == h.from + Min(Max(b, 0), n)
       IN  (IF hi > lo THEN <<[h EXCEPT !.from = lo, !.to = hi]>> ELSE <<>>)
           \o Slice(Tail(str), a - n, b - n)
\* String.prototype.slice(-k)
SliceFromEnd(str, k) == Slice(str, Max(StrLen(str) - k, 0), StrLen(str))

\* options.maxResultSize || 10240 (0: the option is absent)
ConfiguredCap(option) == IF option = 0 THEN defaultMaxResultSize ELSE option

truncateResult(result) ==
  IF StrLen(result) <= maxResultSize THEN result
  ELSE Slice(result, 0, headSize) \o Text("marker", MarkerLen)
       \o SliceFromEnd(result, tailSize)

\* the content of the tool result message, by what the call did: the tool
\* returned text, the tool returned its "Blocked: " string, the tool threw,
\* or the call ceiling was reached
Delivered(kind, text) ==
  CASE kind = "success" -> truncateResult(text)
    [] kind = "blocked" -> truncateResult(Text("Blocked: ", BlockedPrefixLen) \o text)
    [] kind = "error" -> Text("Error: ", ErrorPrefixLen) \o text
    [] kind = "limit" -> Text("limit", LimitMsgLen)

CapOptions == {0, 100, 8000}
ResultKinds == {"success", "blocked", "error", "limit"}
ResultInputs ==
  [op : {"truncate"}, kind : {"success"}, len : 0..MaxStringLen]
  \cup [op : {"deliver"}, kind : ResultKinds, len : 0..MaxStringLen]
NoResult == [op |-> "none", kind |-> "none", len |-> 0]
NoString == [by |-> "none", text |-> <<>>]
InText == Text("raw", resIn.len)

Truncate ==
  /\ resIn.op = "truncate" /\ resOut = NoString
  /\ resOut' = [by |-> "truncateResult", text |-> truncateResult(InText)]
  /\ UNCHANGED <<chanSide, pathVars, guardVars, maxResultSize, resIn, managerVars, viewVars>>

DeliverResult ==
  /\ resIn.op = "deliver" /\ resOut = NoString
  /\ resOut' = [by |-> "toolLoop", text |-> Delivered(resIn.kind, InText)]
  /\ UNCHANGED <<chanSide, pathVars, guardVars, maxResultSize, resIn, managerVars, viewVars>>

\* ---------------------------------------------------------------------------
\* TeamManager, with Agent's constructor, toJSON and fromJSON.  A team name is
\* the sequence of its characters.
NameChars == {"a", "_", " "}
TeamNames == UNION {[1..n -> NameChars] : n \in 1..MaxNameLen}
NoName == <<>>

\* name.replace(/[^a-zA-Z0-9_-]/g, '_')
SafeChar(c) == IF c \in {"a", "_"} THEN c ELSE "_"
SafeName(name) == [i \in 1..Len(name) |-> SafeChar(name[i])]
FileNames == {SafeName(n) : n \in TeamNames}

NoTeam == [null |-> TRUE]
NoFile == [exists |-> FALSE]
NoError == <<>>
NoOp == [op |-> "none", name |-> NoName, id |-> <<>>, threw |-> FALSE, error |-> NoError]
NoSnapshot == [valid |-> FALSE]

\* values of an agent's fields; "" stands for null, undefined and ''
NoId == <<>>
NoKey == ""
Sentinel == "__config__"
ConfigProvider == "grok"
ConfigModel == "grok-4-1-fast-reasoning"
Keys == {NoKey, "sk-explicit", Sentinel}
AgentConfigs ==
  [id : {NoId, <<"x">>}, name : {"Bot"}, role : {""}, systemPrompt : {""},
   provider : {"", "claude"}, model : {""}, apiKey : Keys]

\* new Agent(config): `serial` tells the objects apart, it is no field of Agent
AgentCtor(c, serial) ==
  [id |-> IF c.id = NoId THEN <<"uuid", ToString(serial)>> ELSE c.id,
   name |-> c.name,
   role |-> c.role,
   systemPrompt |-> c.systemPrompt,
   provider |-> IF c.provider = "" THEN ConfigProvider ELSE c.provider,
   model |-> IF c.model = "" THEN ConfigModel ELSE c.model,
   apiKey |-> c.apiKey,
   serial |-> serial]

\* the key the agent's client is set up with
EffectiveKey(agent) == IF agent.apiKey = NoKey THEN configKey ELSE agent.apiKey

toJSONLeaky(agent) ==
  [id |-> agent.id, name |-> agent.name, role |-> agent.role,
   systemPrompt |-> agent.systemPrompt, provider |-> agent.provider,
   model |-> agent.model, apiKey |-> EffectiveKey(agent)]

toJSON(agent) ==
  [id |-> agent.id, name |-> agent.name, role |-> agent.role,
   systemPrompt |-> agent.systemPrompt, provider |-> agent.provider,
   model |-> agent.model,
   apiKey |-> IF agent.apiKey # NoKey THEN agent.apiKey ELSE Sentinel]

fromJSONKeepsSentinel(data, serial) == AgentCtor(data, serial)

fromJSON(data, serial) ==
  AgentCtor([data EXCEPT !.apiKey = IF @ = Sentinel THEN NoKey ELSE @], serial)

IndexOfId(agents, id) ==
  IF \E i \in 1..Len(agents) : agents[i].id = id
    THEN CHOOSE i \in 1..Len(agents) :
           agents[i].id = id /\ \A j \in 1..(i - 1) : agents[j].id # id
    ELSE 0
RemoveAt(seq, i) == SubSeq(seq, 1, i - 1) \o SubSeq(seq, i + 1, Len(seq))

\* every operation counts, also one that throws
Op(op, name, id, threw, error) ==
  /\ nOps < MaxTeamOps
  /\ nOps' = nOps + 1
  /\ lastOp' = [op |-> op, name |-> name, id |-> id, threw |-> threw, error |-> error]
Throws(op, name, id, error) ==
  /\ Op(op, name, id, TRUE, error)
  /\ UNCHANGED <<currentTeam, disk, created, teamFiles, snapshot>>
ManagerFrame == UNCHANGED <<chanSide, pathVars, guardVars, resultVars, configKey, viewVars>>

createTeam(name) ==
  /\ Op("createTeam", name, NoId, FALSE, NoError)
  /\ currentTeam' = [null |-> FALSE, name |-> name, agents |-> <<>>]
  /\ teamFiles' = {}
  /\ UNCHANGED <<disk, created, snapshot>>
  /\ ManagerFrame

addAgent(agentConfig) ==
  /\ IF currentTeam.null
       THEN Throws("addAgent", NoName, NoId,
                   <<"No team loaded", ". Create or load a team first.">>)
       ELSE /\ Op("addAgent", NoName, NoId, FALSE, NoError)
            /\ Len(currentTeam.agents) < MaxTeamAgents
            /\ currentTeam' = [currentTeam EXCEPT
                                 !.agents = Append(@, AgentCtor(agentConfig, created + 1))]
            /\ created' = created + 1
            /\ UNCHANGED <<disk, teamFiles, snapshot>>
  /\ ManagerFrame

removeAgentNoIndexCheck(agentId) ==
  /\ IF currentTeam.null
       THEN Throws("removeAgent", NoName, agentId, <<"No team loaded", ".">>)
       ELSE LET index == IndexOfId(currentTeam.agents, agentId)
                at == IF index = 0 THEN Len(currentTeam.agents) ELSE index
            IN  /\ Op("removeAgent", NoName, agentId, FALSE, NoError)
                /\ currentTeam' = [currentTeam EXCEPT !.agents = RemoveAt(@, at)]
                /\ UNCHANGED <<disk, created, teamFiles, snapshot>>
  /\ ManagerFrame

removeAgent(agentId) ==
  /\ IF currentTeam.null
       THEN Throws("removeAgent", NoName, agentId, <<"No team loaded", ".">>)
       ELSE LET index == IndexOfId(currentTeam.agents, agentId)
            IN  IF index = 0
                  THEN Throws("removeAgent", NoName, agentId,
                              <<"Agent ", "id", " not found", ".">>)
                  ELSE /\ Op("removeAgent", NoName, agentId, FALSE, NoError)
                       /\ currentTeam' = [currentTeam EXCEPT !.agents = RemoveAt(@, index)]
                       /\ UNCHANGED <<disk, created, teamFiles, snapshot>>
  /\ ManagerFrame

\* the 'edit-agent' handler of the TUI: the dialog's config has no apiKey
editAgent(agentId, newProvider) ==
  /\ ~currentTeam.null
  /\ LET index == IndexOfId(currentTeam.agents, agentId)
     IN  /\ index # 0
         /\ Op("editAgent", NoName, agentId, FALSE, NoError)
         /\ currentTeam' = [currentTeam EXCEPT
                              !.agents[index].provider = newProvider,
                              !.agents[index].apiKey = NoKey]
  /\ UNCHANGED <<disk, created, teamFiles, snapshot>>
  /\ ManagerFrame

saveTeam(name) ==
  /\ IF currentTeam.null
       THEN Throws("saveTeam", name, NoId, <<"No team loaded", ".">>)
       ELSE LET teamName == IF name = NoName THEN currentTeam.name ELSE name
                safeName == SafeName(teamName)
                serialized ==
                  [exists |-> TRUE, name |-> teamName,
                   agents |-> [i \in 1..Len(currentTeam.agents) |->
                                 toJSON(currentTeam.agents[i])]]
            IN  /\ Op("saveTeam", name, NoId, FALSE, NoError)
                /\ disk' = [disk EXCEPT ![safeName] = serialized]
                /\ teamFiles' = teamFiles \cup {safeName}
                /\ snapshot' =
                     IF name = NoName
                       THEN [valid |-> TRUE, file |-> safeName, team |-> currentTeam]
                       ELSE IF snapshot.valid /\ snapshot.file = safeName
                              THEN NoSnapshot ELSE snapshot
                /\ UNCHANGED <<currentTeam, created>>
  /\ ManagerFrame

loadTeam(name) ==
  /\ LET data == disk[SafeName(name)]
     IN  IF ~data.exists
           THEN Throws("loadTeam", name, NoId, <<"Team ", "name", " not found", ".">>)
           ELSE /\ Op("loadTeam", name, NoId, FALSE, NoError)
                /\ currentTeam' =
                     [null |-> FALSE, name |-> data.name,
                      agents |-> [i \in 1..Len(data.agents) |->
                                    fromJSON(data.agents[i], created + i)]]
                /\ created' = created + Len(data.agents)
                /\ teamFiles' = {SafeName(name)}
                /\ UNCHANGED <<disk, snapshot>>
  /\ ManagerFrame

deleteTeam(name) ==
  /\ LET safeName == SafeName(name)
     IN  IF ~disk[safeName].exists
           THEN Throws("deleteTeam", name, NoId, <<"Team ", "name", " not found", ".">>)
           ELSE /\ Op("deleteTeam", name, NoId, FALSE, NoError)
                /\ disk' = [disk EXCEPT ![safeName] = NoFile]
                /\ IF ~currentTeam.null /\ currentTeam.name = name
                     THEN currentTeam' = NoTeam /\ teamFiles' = {}
                     ELSE UNCHANGED currentTeam /\ teamFiles' = teamFiles \ {safeName}
                /\ snapshot' = IF snapshot.valid /\ snapshot.file = safeName
                                 THEN NoSnapshot ELSE snapshot
                /\ UNCHANGED created
  /\ ManagerFrame

KnownIds ==
  {<<"x">>, <<"unknown">>}
  \cup (IF currentTeam.null THEN {}
        ELSE {currentTeam.agents[i].id : i \in 1..Len(currentTeam.agents)})

SetLoopInit ==
  /\ lpc = "none" /\ totalRounds = 0 /\ totalToolCalls = 0 /\ accumulatedText = <<>>
  /\ toolCalls = <<>> /\ tcIdx = 0 /\ toolResults = <<>> /\ loopMessages = <<>>
  /\ cbLog = <<>> /\ providerCalls = 0 /\ executed = 0
  /\ lastUsage = NoUsage /\ responseUsage = NoUsage
  /\ toolLog = <<>>

InitAll(scripts, transcripts, providerTags, agentCounts, rounds, perRound) ==
  /\ \E n \in agentCounts :
       /\ team = [i \in 1..n |-> i]
       /\ provider \in [1..n -> providerTags]
       /\ status = [i \in 1..n |-> "idle"]
       /\ messages = [i \in 1..n |-> <<>>]
       /\ lastFailed = [i \in 1..n |-> FALSE]
  /\ maxRounds \in 1..rounds
  /\ maxToolCallsPerRound \in 1..perRound
  /\ sharedMessages \in transcripts
  /\ bpc = "idle" /\ bIdx = 0 /\ bMsg = "" /\ bStart = 0
  /\ responses = <<>> /\ prompts = <<>> /\ events = <<>>
  /\ req = NoReq
  /\ SetLoopInit
  /\ nRequests = 0
  /\ histBefore = messages
  /\ hostError = <<>>
  /\ hostView = NoView
  /\ sideDM = NoReq
  /\ sideBroadcast = NoBroadcast
  /\ dialog = NoDialog
  /\ turnScript \in scripts
  /\ loopOutcome = NoRun

InitFrom(transcripts, providerTags, agentCounts, rounds, perRound) ==
  InitAll({<<>>}, transcripts, providerTags, agentCounts, rounds, perRound)

\* a session begins: the transcript is empty
InitOf(providerTags, agentCounts, rounds, perRound) ==
  InitFrom({<<>>}, providerTags, agentCounts, rounds, perRound)

InitWith(agentCounts, rounds, perRound) == InitOf(Providers, agentCounts, rounds, perRound)

\* the team channel: several requests, short tool loops
PathIdle == pathIn = NoPath /\ pathOut = NoOutcome
GuardIdle == safeMode = TRUE /\ callIn = NoCall /\ callOut = NotCalled
ResultIdle == maxResultSize = ConfiguredCap(0) /\ resIn = NoResult /\ resOut = NoString
ManagerFresh ==
  /\ currentTeam = NoTeam
  /\ disk = [f \in FileNames |-> NoFile]
  /\ created = 0
  /\ lastOp = NoOp
  /\ nOps = 0
  /\ teamFiles = {}
  /\ snapshot = NoSnapshot
ManagerIdle == ManagerFresh /\ configKey = "cfg-key-1"

Init == InitWith(0..MaxAgents, MaxTeamRounds, MaxTeamPerRound) /\ PathIdle /\ GuardIdle /\ ResultIdle /\ ManagerIdle

Next ==
  \/ \E m \in Msgs : BroadcastStart(m, MaxRequests)
  \/ BroadcastNextAgent
  \/ BroadcastDone
  \/ \E a \in AgentIds, m \in Msgs : DMStart(a, m, MaxRequests)
  \/ \E toolUse \in BOOLEAN, names \in CallSeqs(MaxTeamCalls) : ProviderRespond(toolUse, names)
  \/ ProviderFail
  \/ \E ok \in BOOLEAN : ToolReturn(ok)

Spec == Init /\ [][Next]_vars

\* one request of a one-agent team: the tool loop in detail
InitLoop == InitWith({1}, MaxRoundsCfg, MaxPerRoundCfg) /\ PathIdle /\ GuardIdle /\ ResultIdle /\ ManagerIdle

NextLoop ==
  \/ \E m \in Msgs : BroadcastStart(m, 1)
  \/ BroadcastNextAgent
  \/ BroadcastDone
  \/ \E m \in Msgs : DMStart(1, m, 1)
  \/ \E toolUse \in BOOLEAN, names \in CallSeqs(MaxCallsPerTurn) : ProviderRespond(toolUse, names)
  \/ ProviderFail
  \/ \E ok \in BOOLEAN : ToolReturn(ok)

SpecLoop == InitLoop /\ [][NextLoop]_vars

\* the same request for every provider tag
InitProviders ==
  /\ InitOf(AllProviders, {1}, MaxRoundsCfg, MaxPerRoundCfg)
  /\ PathIdle /\ GuardIdle /\ ResultIdle /\ ManagerIdle

SpecProviders == InitProviders /\ [][NextLoop]_vars

\* the same request, the tool calls' arguments included
NextTools ==
  \/ NextLoop
  \/ \E names \in CallSeqs(MaxCallsPerTurn), k \in 1..MaxCallsPerTurn :
       ProviderRespondMalformed(names, k)

SpecTools == InitLoop /\ [][NextTools]_vars

\* the scheduler runs every resolved promise's continuation, and the claim's
\* premise is that every provider call and every tool returns
FairSpecLoop == SpecLoop /\ WF_vars(NextLoop)

\* one call of a file tool: the path jail
InitPath ==
  /\ InitWith({0}, 1, 1)
  /\ pathIn \in PathInputs
  /\ pathOut = NoOutcome
  /\ GuardIdle /\ ResultIdle /\ ManagerIdle

NextPath == DispatchRead \/ DispatchWrite

SpecPath == InitPath /\ [][NextPath]_vars

\* one call of bash or webfetch: validation before effect
InitGuard ==
  /\ InitWith({0}, 1, 1)
  /\ PathIdle
  /\ safeMode \in BOOLEAN
  /\ callIn \in CallInputs
  /\ callOut = NotCalled
  /\ ResultIdle /\ ManagerIdle

NextGuard ==
  \/ \E exit \in {"ok", "killed", "failed"} : DispatchBash(exit)
  \/ \E ok \in BOOLEAN : DispatchWebFetch(ok)

SpecGuard == InitGuard /\ [][NextGuard]_vars

\* one result string: truncation and delivery
InitResult ==
  /\ InitWith({0}, 1, 1)
  /\ PathIdle /\ GuardIdle
  /\ maxResultSize \in {ConfiguredCap(o) : o \in CapOptions}
  /\ resIn \in ResultInputs
  /\ resOut = NoString
  /\ ManagerIdle

NextResult == Truncate \/ DeliverResult

SpecResult == InitResult /\ [][NextResult]_vars

\* the team manager: teams created, edited, saved, loaded and deleted
InitTeam ==
  /\ InitWith({0}, 1, 1)
  /\ PathIdle /\ GuardIdle /\ ResultIdle
  /\ ManagerFresh
  /\ configKey \in {"cfg-key-1", "cfg-key-2"}

NextTeam ==
  \/ \E name \in TeamNames : createTeam(name)
  \/ \E agentConfig \in AgentConfigs : addAgent(agentConfig)
  \/ \E agentId \in KnownIds : removeAgent(agentId)
  \/ \E agentId \in KnownIds, p \in {"grok", "claude"} : editAgent(agentId, p)
  \/ \E name \in TeamNames \cup {NoName} : saveTeam(name)
  \/ \E name \in TeamNames : loadTeam(name)
  \/ \E name \in TeamNames : deleteTeam(name)

SpecTeam == InitTeam /\ [][NextTeam]_vars

\* broadcasts, with the host reading and clearing the transcript
NextChan ==
  \/ \E m \in Msgs : BroadcastStart(m, MaxRequests)
  \/ BroadcastNextAgent
  \/ BroadcastDone
  \/ \E toolUse \in BOOLEAN, names \in CallSeqs(MaxTeamCalls) : ProviderRespond(toolUse, names)
  \/ ProviderFail
  \/ \E ok \in BOOLEAN : ToolReturn(ok)
  \/ GetSharedMessages
  \/ \E op \in ArrayOps : MutateView(op)
  \/ ClearHistory

SpecChan == Init /\ [][NextChan]_vars

\* one request of a one-agent team, each provider response with or without
\* a usage field
NextUsage ==
  \/ \E m \in Msgs : BroadcastStart(m, 1)
  \/ BroadcastNextAgent
  \/ BroadcastDone
  \/ \E m \in Msgs : DMStart(1, m, 1)
  \/ \E toolUse \in BOOLEAN, names \in CallSeqs(MaxCallsPerTurn), usage \in Usages \cup {NoUsage} :
        ProviderRespondWith(toolUse, names, usage)
  \/ ProviderFail
  \/ \E ok \in BOOLEAN : ToolReturn(ok)

SpecUsage == InitLoop /\ [][NextUsage]_vars

\* one broadcast late in a session: the transcript holds the entries of k
\* earlier broadcasts to a team of p agents, each reply with a text of its
\* own, and the team has been loaded anew since (loadTeam builds new Agent
\* objects and leaves the channel's transcript alone)
MaxTranscript == 54
PastEntry(i, p) ==
  IF i % (p + 1) = 1
    THEN UserEntry("m1")
    ELSE Entry(((i - 2) % (p + 1)) + 1, <<"reply " \o ToString(i)>>)
PastTranscripts ==
  {[i \in 1..(k * (p + 1)) |-> PastEntry(i, p)] :
     <<k, p>> \in {kp \in (0..MaxTranscript) \X (1..MaxAgents) :
                     kp[1] * (kp[2] + 1) <= MaxTranscript}}

InitPrompt ==
  /\ InitFrom(PastTranscripts, Providers, {1, 2}, MaxTeamRounds, MaxTeamPerRound)
  /\ PathIdle /\ GuardIdle /\ ResultIdle /\ ManagerIdle

NextPrompt ==
  \/ \E m \in Msgs : BroadcastStart(m, 1)
  \/ BroadcastNextAgent
  \/ BroadcastDone
  \/ \E toolUse \in BOOLEAN, names \in CallSeqs(MaxTeamCalls) : ProviderRespond(toolUse, names)
  \/ ProviderFail
  \/ \E ok \in BOOLEAN : ToolReturn(ok)

SpecPrompt == InitPrompt /\ [][NextPrompt]_vars

\* the two tool loops on the same provider turns
MaxScriptTurns == 3
TurnShapes == [calls : 0..MaxCallsPerTurn, ok : BOOLEAN]
Scripts == UNION {[1..n -> TurnShapes] : n \in 0..MaxScriptTurns}
InitEquiv ==
  /\ InitAll(Scripts, {<<>>}, Providers, {0}, MaxRoundsCfg, MaxPerRoundCfg)
  /\ PathIdle /\ GuardIdle /\ ResultIdle /\ ManagerIdle

NextEquiv == RunBothLoops

SpecEquiv == InitEquiv /\ [][NextEquiv]_vars

\* broadcasts and DMs, a DM also while another request awaits
MaxSideRequests == 3
NextDM ==
  \/ Next
  \/ \E a \in AgentIds, m \in Msgs : HandleAgentDMWhileAwaiting(a, m, MaxSideRequests)
  \/ \E ok \in BOOLEAN : SideDMSettles(ok)

SpecDM == Init /\ [][NextDM]_vars

\* team messages, one of them also while another broadcast awaits
MaxOverlapRequests == 2
NextOverlap ==
  \/ \E m \in Msgs : BroadcastStart(m, MaxOverlapRequests)
  \/ BroadcastNextAgent
  \/ BroadcastDone
  \/ \E toolUse \in BOOLEAN, names \in CallSeqs(MaxTeamCalls) : ProviderRespond(toolUse, names)
  \/ ProviderFail
  \/ \E ok \in BOOLEAN : ToolReturn(ok)
  \/ \E m \in Msgs : HandleTeamChannelMessageWhileAwaiting(m, MaxOverlapRequests)
  \/ \E ok \in BOOLEAN : SideBroadcastSettles(ok)

SpecOverlap == Init /\ [][NextOverlap]_vars

\* the agent-config dialog, shown for a new agent or for an agent of the team
MaxListIndex == 5
TextValues == {"", "Rev"}
ExistingAgents ==
  {[null |-> TRUE],
   [null |-> FALSE, id |-> <<"x">>, name |-> "Bot", role |-> "", provider |-> "claude",
    model |-> "claude-opus-4-6", systemPrompt |-> ""]}
NextDialog ==
  \/ \E existing \in ExistingAgents : show(existing)
  \/ \E value \in TextValues : handleTextSubmit(value)
  \/ \E index \in 0..MaxListIndex : handleListSelect(index)
  \/ handleBack

SpecDialog == Init /\ [][NextDialog]_vars

\* one broadcast, with the host editing the team at any time
InitHost ==
  /\ InitWith({1, 2}, MaxTeamRounds, MaxTeamPerRound)
  /\ PathIdle /\ GuardIdle /\ ResultIdle /\ ManagerIdle

NextHost ==
  \/ \E m \in Msgs : BroadcastStart(m, 1)
  \/ BroadcastNextAgent
  \/ BroadcastDone
  \/ \E toolUse \in BOOLEAN, names \in CallSeqs(MaxTeamCalls) : ProviderRespond(toolUse, names)
  \/ ProviderFail
  \/ \E ok \in BOOLEAN : ToolReturn(ok)
  \/ \E p \in Providers : HostAddAgent(p)
  \/ \E a \in AgentIds : HostRemoveAgent(a)
  \/ \E a \in AgentIds, p \in Providers : HostEditAgent(a, p)

SpecHost == InitHost /\ [][NextHost]_vars

(* ------------------------------- claims -------------------------------- *)
Range(f) == {f[i] : i \in DOMAIN f}
BroadcastBegun == bMsg # ""
\* the entries the running / last broadcast appended
Appended == SubSeq(sharedMessages, bStart + 1, Len(sharedMessages))

\* C1: in every broadcast, also one after earlier broadcasts on the channel,
\* the prompt built for the i-th agent is made of exactly M and the replies
\* R1..R(i-1) of this broadcast, in order (no TEAMMATE section for i = 1).
C1_PromptOnlyThisBroadcast ==
  \A i \in 1..Len(prompts) :
    prompts[i] = RenderPrompt(bMsg, team[i],
                              SubSeq(sharedMessages, bStart + 2, bStart + i), i = 1)

\* C2: a broadcast over n >= 1 agents appends the user entry and then one
\* entry per agent in team order; an agent's entry is appended only after its
\* request is over, and the next agent's prompt is built only after it.
C2_AppendsInTeamOrder ==
  BroadcastBegun =>
    /\ Len(Appended) = 1 + Len(responses)
    /\ Appended[1] = UserEntry(bMsg)
    /\ \A i \in 1..Len(responses) : Appended[i + 1].agentId = team[i]
    /\ (bpc = "await") => (Len(responses) = bIdx - 1 /\ Len(prompts) = bIdx)
    /\ (bpc = "loop") => (Len(responses) = bIdx - 1 /\ Len(prompts) = bIdx - 1)
    /\ (bpc = "idle") => (Len(Appended) = Len(team) + 1)

C2_Witness ==
  /\ bpc = "idle" /\ Len(team) = 2 /\ bStart > 0
  /\ Len(sharedMessages) = bStart + 3

\* C3: when an agent's request fails its "Error: ..." entry is appended, the
\* later agents are still invoked, and the broadcast returns one response
\* record per agent in team order, whichever agents failed.
Thinking == SelectSeq(events, LAMBDA e : e[1] = "agent-thinking")

C3_BroadcastSurvivesFailure ==
  BroadcastBegun =>
    /\ \A i \in 1..Len(responses) :
         /\ responses[i].agent = team[i]
         /\ responses[i].error =>
              /\ Len(Appended) >= i + 1
              /\ Appended[i + 1] = Entry(team[i], ErrorMsg)
              /\ Appended[i + 1].content[1] = "Error: "
              /\ responses[i].response = ErrorMsg
    /\ (bpc = "idle") =>
         /\ Len(responses) = Len(team)
         /\ Len(Thinking) = Len(team)
         /\ \A i \in 1..Len(team) : Thinking[i][2] = team[i]

C3_Witness ==
  /\ bpc = "idle" /\ Len(responses) = 2
  /\ responses[1].error /\ ~responses[2].error

\* C7: a broadcast leaves every agent's private DM history as it was when
\* the broadcast began.
C7_BroadcastKeepsHistory ==
  (bpc # "idle") => (messages = histBefore)

\* C8: an agent's status is thinking while its provider call is awaited, tool
\* while one of its tools executes, idle or error otherwise, and error exactly
\* when its last request failed.
C8_StatusInvariant ==
  \A a \in 1..Len(team) :
    /\ (req.agent = a /\ lpc = "provider") => status[a] = "thinking"
    /\ (req.agent = a /\ lpc = "tool") => status[a] = "tool"
    /\ (req.agent # a) => status[a] = (IF lastFailed[a] THEN "error" ELSE "idle")

\* C4: the tools executed during one agent request never exceed
\* maxRounds x maxToolCallsPerRound, in either tool loop.
C4_ToolCallCeiling == executed <= maxRounds * maxToolCallsPerRound

\* C5: the tool loop is bounded: a request makes at most maxRounds provider
\* calls and, every provider call and tool returning, it terminates: while the
\* request runs a step of the loop is always possible, and every step either
\* ends the request or lowers a measure that never goes below zero.
InFlight == req.kind # "none"
LoopStep ==
  \/ \E toolUse \in BOOLEAN, names \in CallSeqs(MaxCallsPerTurn) :
       ProviderRespond(toolUse, names)
  \/ ProviderFail
  \/ \E ok \in BOOLEAN : ToolReturn(ok)
Measure ==
  (maxRounds - totalRounds) * (MaxCallsPerTurn + 1)
  + (IF lpc = "provider" THEN MaxCallsPerTurn ELSE Len(toolCalls) - tcIdx)

C5_LoopBounded ==
  /\ [](providerCalls <= maxRounds)
  /\ [](InFlight => (Measure >= 0 /\ ENABLED LoopStep))
  /\ [][InFlight => (~InFlight' \/ Measure' < Measure)]_vars

C5_Witness ==
  /\ lpc = "returned" /\ maxRounds = 2 /\ providerCalls = 2 /\ executed > 0

\* C6: when the provider returns tool calls in the last permitted round, the
\* results are delivered, one further provider call elicits the final
\* response, and the rounds sentinel is appended to the returned text.
C6_FinalResponseElicited ==
  (lpc = "returned" /\ totalRounds >= maxRounds /\ toolCalls # <<>>) =>
    /\ RoundsNote \in Range(accumulatedText)
    /\ providerCalls = maxRounds + 1
    /\ loopMessages[Len(loopMessages)].role = "assistant"

\* C9: before bash, write or edit is dispatched the permission callback is
\* consulted for that call.
C9_PermissionBeforeDispatch ==
  (lpc = "tool" /\ toolCalls[tcIdx].name \in {"bash", "write", "edit"}) =>
    /\ cbLog # <<>>
    /\ cbLog[Len(cbLog)] = <<"onPermissionRequired", toolCalls[tcIdx].name>>

\* C10: path jail: a read or write of a path whose canonical location is
\* neither the project root nor a descendant of it (a sibling directory whose
\* name merely starts with the root's name included) yields a result beginning
\* with "Blocked: " and touches no file.
Canonical(filePath) == Locate(resolve(projectRoot, filePath))
Inside(p) ==
  \E ap \in allowedPaths : Len(ap) <= Len(p) /\ SubSeq(p, 1, Len(ap)) = ap

C10_PathJail ==
  (pathOut # NoOutcome /\ ~Inside(Canonical(pathIn))) =>
    (pathOut.result = "Blocked: " /\ pathOut.op = "none")

\* C18: broadcastToAll on a team without agents fails with an error whose
\* message contains "No agents", appends nothing to the shared transcript and
\* emits no agent event.
C18_EmptyTeamRejected ==
  (Len(team) = 0 /\ nRequests > 0) =>
    /\ "No agents" \in Range(hostError)
    /\ sharedMessages = <<>>
    /\ events = <<>>
    /\ bpc = "idle" /\ req = NoReq

C18_Witness == Len(team) = 0 /\ nRequests = 2 /\ hostError # <<>>

\* C19: in every broadcast, the first on a channel or a later one, the first
\* agent's prompt has no TEAMMATE RESPONSES section and says "You go FIRST";
\* every later agent's prompt has the section and the build-on-teammates
\* assignment.
C19_FirstAgentGoesFirst ==
  \A i \in 1..Len(prompts) :
    IF i = 1
      THEN /\ "== TEAMMATE RESPONSES ==" \notin Range(prompts[i])
           /\ "You go FIRST" \in Range(prompts[i])
      ELSE /\ "== TEAMMATE RESPONSES ==" \in Range(prompts[i])
           /\ "Your teammates above have already responded" \in Range(prompts[i])

\* C20: within one broadcast the agents are driven strictly sequentially: at
\* most one agent request of the broadcast is in flight, it is the request of
\* the agent whose prompt was built last, and the next prompt is built only
\* when every earlier agent has its response record.
C20_OneRequestInFlight ==
  /\ Len(prompts) - Len(responses) \in {0, 1}
  /\ (Len(prompts) - Len(responses) = 1) <=> (req.kind = "broadcast")
  /\ (req.kind = "broadcast") =>
       (Len(prompts) <= Len(team) /\ req.agent = team[Len(prompts)])

C20_Witness ==
  /\ req.kind = "broadcast" /\ Len(team) = 2 /\ Len(prompts) = 2 /\ lpc = "tool"

\* C11: validation precedes effect: a bash command that matches a blocked
\* pattern, and a webfetch whose host is loopback, RFC 1918, link-local or a
\* cloud-metadata host, return "Blocked: ", spawn no subprocess, make no
\* network request, and return normally, so that the tool loop goes on.
Loopback(h) ==
  \/ h.kind = "ipv4" /\ h.text[1] = "127"
  \/ h.kind = "name" /\ h.text = <<"localhost">>
  \/ h.kind = "ipv6" /\ h.text = <<"::1">>
Rfc1918(h) ==
  /\ h.kind = "ipv4"
  /\ \/ h.text[1] = "10"
     \/ h.text[1] = "172" /\ h.text[3] \in {ToString(n) : n \in 16..31}
     \/ h.text[1] = "192" /\ h.text[3] = "168"
LinkLocal(h) ==
  \/ h.kind = "ipv4" /\ h.text[1] = "169" /\ h.text[3] = "254"
  \/ h.kind = "ipv6" /\ h.text[1] = "fe80"
CloudMetadata(h) ==
  h.kind = "name" /\ h.text = <<"metadata", ".", "google", ".", "internal">>
MustBeBlocked(in) ==
  \/ in.tool = "bash" /\ \E pattern \in blockedCommands : TestBlocked(pattern, in.command)
  \/ /\ in.tool = "webfetch" /\ in.url.parses
     /\ \/ Loopback(in.url.host) \/ Rfc1918(in.url.host)
        \/ LinkLocal(in.url.host) \/ CloudMetadata(in.url.host)

C11_ValidationBeforeEffect ==
  (callOut # NotCalled /\ MustBeBlocked(callIn)) => (callOut = BlockedCall)

\* C12: truncation law: for every string and every configured cap,
\* truncateResult gives a string no longer than the cap, and gives the string
\* itself when it is no longer than the cap.
C12_TruncationLaw ==
  (resOut.by = "truncateResult") =>
    /\ StrLen(resOut.text) <= maxResultSize
    /\ (resIn.len <= maxResultSize) => (resOut.text = InText)

\* C13: whatever a tool call's outcome (success, blocked, tool error, limit
\* reached), the result string delivered to the model is no longer than
\* maxResultSize.
C13_DeliveredWithinCap ==
  (resOut.by = "toolLoop") => (StrLen(resOut.text) <= maxResultSize)

\* ---------------------------------------------------------------------------
\* The team manager's claims.

\* loadTeam(name) has just returned the record that saveTeam() wrote for a team
\* of that name
RoundTrip ==
  /\ lastOp.op = "loadTeam" /\ ~lastOp.threw
  /\ snapshot.valid
  /\ lastOp.name = snapshot.team.name

SameAgentList(loaded, original) ==
  /\ Len(loaded) = Len(original)
  /\ \A i \in 1..Len(original) :
       /\ loaded[i].id = original[i].id
       /\ loaded[i].name = original[i].name
       /\ loaded[i].role = original[i].role
       /\ loaded[i].provider = original[i].provider
       /\ loaded[i].model = original[i].model
       /\ loaded[i].systemPrompt = original[i].systemPrompt

SameKeys(loaded, original) ==
  \A i \in 1..Len(original) :
    i <= Len(loaded) => loaded[i].apiKey = original[i].apiKey

\* C14 as stated: after saveTeam() and loadTeam(name) the team has the same
\* name and the same ordered agents, and every agent's key is the original
\* explicit key, or none exactly when the original had none.
C14_RoundTripAnyKey ==
  RoundTrip =>
    /\ ~currentTeam.null
    /\ currentTeam.name = snapshot.team.name
    /\ SameAgentList(currentTeam.agents, snapshot.team.agents)
    /\ SameKeys(currentTeam.agents, snapshot.team.agents)

\* C14: the round trip restores name, ordered agents and keys of every team
\* none of whose agents has the reserved text "__config__" as its explicit
\* key; such a key comes back as none.
C14_RoundTrip ==
  RoundTrip =>
    /\ ~currentTeam.null
    /\ currentTeam.name = snapshot.team.name
    /\ SameAgentList(currentTeam.agents, snapshot.team.agents)
    /\ \A i \in 1..Len(snapshot.team.agents) :
         i <= Len(currentTeam.agents) =>
           currentTeam.agents[i].apiKey =
             IF snapshot.team.agents[i].apiKey = Sentinel
               THEN NoKey ELSE snapshot.team.agents[i].apiKey

C14_Witness ==
  /\ RoundTrip
  /\ Len(snapshot.team.agents) = 1
  /\ snapshot.team.agents[1].apiKey = NoKey
  /\ ~currentTeam.null
  /\ Len(currentTeam.agents) = 1
  /\ currentTeam.agents[1].serial # snapshot.team.agents[1].serial
  /\ snapshot.team.name = <<" ">>

\* saveTeam has just written the current team to the file `SavedFile`
JustSaved == lastOp.op = "saveTeam" /\ ~lastOp.threw /\ ~currentTeam.null
SavedFile == SafeName(IF lastOp.name = NoName THEN currentTeam.name ELSE lastOp.name)
PersistedKeys ==
  UNION {{disk[f].agents[i].apiKey : i \in 1..Len(disk[f].agents)} :
           f \in {g \in FileNames : disk[g].exists}}

\* C15: a record written by saveTeam holds the text "__config__" as the key of
\* every agent that has no explicit key, and no team file holds the config's
\* key, whichever value that key has.
C15_NoConfigKeyOnDisk ==
  /\ JustSaved =>
       /\ disk[SavedFile].exists
       /\ Len(disk[SavedFile].agents) = Len(currentTeam.agents)
       /\ \A i \in 1..Len(currentTeam.agents) :
            currentTeam.agents[i].apiKey = NoKey =>
              disk[SavedFile].agents[i].apiKey = Sentinel
  /\ PersistedKeys \cap {"cfg-key-1", "cfg-key-2", NoKey} = {}

C15_Witness ==
  /\ JustSaved
  /\ configKey = "cfg-key-2"
  /\ Len(currentTeam.agents) = 1
  /\ currentTeam.agents[1].apiKey = NoKey
  /\ currentTeam.agents[1].provider = "claude"
  /\ disk[SavedFile].agents[1].apiKey = Sentinel
  /\ nOps = 4

\* this step is a deleteTeam that removed the file `DeletedFile`
DeleteStep == lastOp'.op = "deleteTeam" /\ ~lastOp'.threw /\ nOps' = nOps + 1
DeletedFile == SafeName(lastOp'.name)
\* the removed record was written from, or read into, the current team and
\* carries its name
RemovedCurrentRecord ==
  /\ ~currentTeam.null
  /\ DeletedFile \in teamFiles
  /\ disk[DeletedFile].name = currentTeam.name
RemovedOtherRecord ==
  /\ ~currentTeam.null
  /\ DeletedFile \notin teamFiles
  /\ disk[DeletedFile].name # currentTeam.name

\* C16: a deleteTeam that succeeds sets currentTeam to null when the record it
\* removed is the current team's persisted record, and leaves currentTeam as
\* it is when the record belongs to another team.
C16_DeleteClearsCurrent ==
  [][DeleteStep =>
       /\ RemovedCurrentRecord => currentTeam' = NoTeam
       /\ RemovedOtherRecord => currentTeam' = currentTeam]_vars

\* C17: no two agents of the current team have the same identifier, and the
\* agents stand in the order in which they were added.
C17_UniqueIdsInOrder ==
  ~currentTeam.null =>
    \A i, j \in 1..Len(currentTeam.agents) :
      i < j => /\ currentTeam.agents[i].id # currentTeam.agents[j].id
               /\ currentTeam.agents[i].serial < currentTeam.agents[j].serial

\* the order half alone
TeamInAddOrder ==
  ~currentTeam.null =>
    \A i, j \in 1..Len(currentTeam.agents) :
      i < j => currentTeam.agents[i].serial < currentTeam.agents[j].serial

\* ---------------------------------------------------------------------------
\* C21: while a broadcast is in flight no step changes the team's agent list,
\* so the broadcast walks the agents it started with, in their order.
C21_TeamFixedDuringBroadcast == [][bpc # "idle" => team' = team]_vars

\* ---------------------------------------------------------------------------
\* the tool results the loop has put into the working messages, in order
ToolMessages == SelectSeq(loopMessages, LAMBDA m : m.role = "tool")
\* tool calls of the request that precede the one being executed
CallsBefore == Len(ToolMessages) + (tcIdx - 1)

BeyondCeilingNotExecuted == (lpc = "tool") => (CallsBefore < maxTotalToolCalls)
BeyondCeilingSynthetic ==
  \A k \in 1..Len(ToolMessages) :
    k > maxTotalToolCalls => ToolMessages[k].content = LimitMsg
NoProviderCallAtCeiling == (lpc = "provider") => (Len(ToolMessages) < maxTotalToolCalls)

\* C22: once the request's tool-call count has reached maxRounds x
\* maxToolCallsPerRound, a further tool call is not executed, its result in the
\* working messages is the tool-limit text, and no further provider call is
\* made.
C22_CeilingStopsTools ==
  /\ BeyondCeilingNotExecuted
  /\ BeyondCeilingSynthetic
  /\ NoProviderCallAtCeiling

\* the first provider call of the request is answered with a turn that has
\* text and no tool call (for Anthropic: a stop reason other than tool_use)
FirstTurnWithoutTools ==
  /\ lpc = "provider" /\ providerCalls = 1
  /\ ProviderRespond(FALSE, <<>>)

C24_EventOrder ==
  /\ Len(events) <= 2 * Len(team)
  /\ \A j \in 1..Len(events) :
       IF j % 2 = 1
         THEN events[j] = <<"agent-thinking", team[(j + 1) \div 2]>>
         ELSE /\ events[j][1] \in {"agent-responded", "agent-error"}
              /\ events[j][2] = team[j \div 2]
  /\ (BroadcastBegun /\ bpc = "idle") => Len(events) = 2 * Len(team)
  /\ (bpc = "await") => Len(events) % 2 = 1

C24_Witness ==
  /\ BroadcastBegun /\ bpc = "idle" /\ Len(team) = 2
  /\ events = << <<"agent-thinking", 1>>, <<"agent-error", 1>>,
                 <<"agent-thinking", 2>>, <<"agent-responded", 2>> >>
  /\ executed > 0

\* ---------------------------------------------------------------------------
\* the tool results that follow the last assistant turn in the working messages
LastAssistant(msgs) ==
  IF \E p \in 1..Len(msgs) : msgs[p] = AssistantMsg
    THEN CHOOSE p \in 1..Len(msgs) :
           msgs[p] = AssistantMsg /\ \A q \in (p + 1)..Len(msgs) : msgs[q] # AssistantMsg
    ELSE 0
TurnResults(msgs) == SubSeq(msgs, LastAssistant(msgs) + 1, Len(msgs))

\* while a tool runs, the calls before it in the turn, and only those, have
\* their results, and the last callback announced the running call
OneToolAtATime ==
  (lpc = "tool") =>
    /\ tcIdx \in 1..Len(toolCalls)
    /\ Len(toolResults) = tcIdx - 1
    /\ \A j \in 1..Len(toolResults) : toolResults[j].id = toolCalls[j].id
    /\ cbLog # <<>> /\ cbLog[Len(cbLog)] = <<"onToolCall", toolCalls[tcIdx].name>>
    /\ tcIdx > 1 =>
         (Len(cbLog) >= 2 /\ cbLog[Len(cbLog) - 1] = <<"onToolResult", toolCalls[tcIdx - 1].name>>)

\* the step that ends a turn's tool calls leaves one result per call behind
\* the assistant turn, in emission order, under the call's id
TurnEndKeepsResults ==
  (lpc = "tool" /\ lpc' \in {"provider", "returned"}) =>
    LET r == TurnResults(loopMessages')
    IN  /\ Len(r) = Len(toolCalls)
        /\ \A j \in 1..Len(r) :
             j <= Len(toolCalls) => (r[j].role = "tool" /\ r[j].id = toolCalls[j].id)

ToolRaises == lpc = "tool" /\ ToolReturn(FALSE)
ArgumentsRejected ==
  \/ /\ lpc = "tool" /\ tcIdx < Len(toolCalls) /\ toolCalls[tcIdx + 1].args = "malformed"
     /\ \E ok \in BOOLEAN : ToolReturn(ok)
  \/ /\ lpc = "provider"
     /\ \E names \in CallSeqs(MaxCallsPerTurn) : ProviderRespondMalformed(names, 1)

\* C26: a failure while a model-emitted tool call is processed does not fail
\* the request: the call's result is "Error: ..." under the call's id and the
\* loop goes on with the turn's next call or the round's end.
C26_ToolFailureContained ==
  [][(ToolRaises \/ ArgumentsRejected) =>
       /\ lpc' # "threw"
       /\ ~lastFailed'[req.agent]
       /\ ToolRaises =>
            \/ /\ lpc' = "tool" /\ tcIdx' = tcIdx + 1
               /\ toolResults'[tcIdx] = [id |-> toolCalls[tcIdx].id, result |-> "Error: tool"]
            \/ /\ lpc' \in {"provider", "returned"}
               /\ TurnResults(loopMessages')[tcIdx].id = toolCalls[tcIdx].id]_vars

\* the same for the failures that arise inside _dispatchTool only
RaisedToolContained ==
  [][ToolRaises =>
       /\ lpc' # "threw"
       /\ ~lastFailed'[req.agent]
       /\ \/ /\ lpc' = "tool" /\ tcIdx' = tcIdx + 1
             /\ toolResults'[tcIdx] = [id |-> toolCalls[tcIdx].id, result |-> "Error: tool"]
          \/ /\ lpc' \in {"provider", "returned"}
             /\ TurnResults(loopMessages')[tcIdx].id = toolCalls[tcIdx].id]_vars

\* ---------------------------------------------------------------------------
IsPrefix(a, b) == Len(a) <= Len(b) /\ SubSeq(b, 1, Len(a)) = a
\* the elements the host finds in the array it holds
ViewItems == IF hostView.alias THEN sharedMessages ELSE hostView.items

TurnWithCalls ==
  /\ lpc = "provider" /\ totalToolCalls < maxTotalToolCalls
  /\ \E names \in CallSeqs(MaxCallsPerTurn) : names # <<>> /\ ProviderRespond(TRUE, names)
\* the round of a turn with tool calls ends while the limits allow another round
RoundEndsWithinLimits ==
  /\ lpc = "tool" /\ lpc' # "tool"
  /\ totalRounds' < maxRounds /\ totalToolCalls' < maxTotalToolCalls

CapabilityClasses(toolCapable, singlePass) ==
  /\ \A a \in DOMAIN provider :
       (InFlight /\ req.agent = a /\ provider[a] \in toolCapable) =>
         /\ TurnWithCalls => (lpc' = "tool" /\ executed' = executed + 1)
         /\ RoundEndsWithinLimits => (lpc' = "provider" /\ providerCalls' = providerCalls + 1)
  /\ \A a \in DOMAIN provider :
       (InFlight /\ req.agent = a /\ provider[a] \in singlePass) =>
         /\ providerCalls = 1 /\ executed' = 0
         /\ lpc = "provider" => (lpc' \in {"returned", "threw"} /\ providerCalls' = 1)

\* C28 as stated: grok, claude and ollama run the tool loop (a response with
\* tool calls leads to tool execution and, the limits allowing, to a further
\* provider call); groq and gemini make exactly one provider call and execute
\* no tool.
C28_ClassesAsStated ==
  [][CapabilityClasses({"grok", "claude", "ollama"}, {"groq", "gemini"})]_vars

\* C28: grok and claude run the tool loop; ollama, groq and gemini make
\* exactly one provider call and execute no tool.
C28_CapabilityClasses ==
  [][CapabilityClasses({"grok", "claude"}, {"ollama", "groq", "gemini"})]_vars

C28_Witness ==
  /\ provider[1] = "ollama" /\ lpc = "returned" /\ providerCalls = 1 /\ executed = 0
  /\ accumulatedText = <<"text", Footer>>

\* ---------------------------------------------------------------------------
\* the step is a TeamManager operation whose precondition does not hold
OpStep == nOps' = nOps + 1
NeedsTeam == OpStep /\ lastOp'.op \in {"addAgent", "removeAgent", "saveTeam"} /\ currentTeam.null
UnknownAgent ==
  /\ OpStep /\ lastOp'.op = "removeAgent" /\ ~currentTeam.null
  /\ \A i \in 1..Len(currentTeam.agents) : currentTeam.agents[i].id # lastOp'.id
UnknownTeam ==
  /\ OpStep /\ lastOp'.op \in {"loadTeam", "deleteTeam"}
  /\ ~disk[SafeName(lastOp'.name)].exists

DMStep == sideDM' # sideDM \/ req.kind = "dm" \/ req'.kind = "dm"
DMAgent ==
  IF sideDM' # sideDM
    THEN (IF sideDM'.kind = "dm" THEN sideDM'.agent ELSE sideDM.agent)
    ELSE (IF req'.kind = "dm" THEN req'.agent ELSE req.agent)
OthersUntouched(a) ==
  \A b \in DOMAIN messages \ {a} :
     b \in DOMAIN messages' /\ messages'[b] = messages[b] /\ status'[b] = status[b]

\* C30: a DM request to agent A changes only A's DM history and status: in
\* every step of a DM, whether it runs alone, after broadcasts or while a
\* broadcast or another DM awaits, the shared transcript and every other
\* agent's history and status stay as they were, and A's history only grows.
C30_DMIsolation ==
  [][DMStep => /\ sharedMessages' = sharedMessages
               /\ OthersUntouched(DMAgent)
               /\ DOMAIN messages' = DOMAIN messages
               /\ IsPrefix(messages[DMAgent], messages'[DMAgent])
               /\ team' = team]_vars

\* a DM to agent 2 is in flight while a broadcast awaits agent 1, after an
\* earlier DM to agent 1 was answered
C30_Witness ==
  /\ bpc = "await" /\ req.kind = "broadcast" /\ req.agent = 1
  /\ sideDM.kind = "dm" /\ sideDM.agent = 2
  /\ Len(messages[1]) = 2 /\ messages[1][1].content \in {<<m>> : m \in Msgs}
  /\ sharedMessages # <<>>

\* ---------------------------------------------------------------------------
\* a tool-loop request returned its text
ToolLoopReturned == lpc = "returned" /\ provider[1] \in {"grok", "claude"}
Footers == {FooterOf(usage) : usage \in Usages}
FooterCount == Cardinality({i \in 1..Len(accumulatedText) : accumulatedText[i] \in Footers})
LastPart == IF accumulatedText = <<>> THEN "" ELSE accumulatedText[Len(accumulatedText)]

\* C31: the text a tool-loop request returns contains the usage footer exactly
\* once, as its final part, after the accumulated text and any tool-limit
\* sentinel, and the footer's token counts are those of the last provider
\* response of the request.
C31_FooterOfLastResponse ==
  ToolLoopReturned => (FooterCount = 1 /\ LastPart = FooterOf(responseUsage))

\* the usage the footer is made of: that of the latest response of the
\* request that carried a usage field
KeepsLastReportedUsage ==
  lastUsage' = IF responseUsage' # NoUsage THEN responseUsage' ELSE lastUsage
FooterAsReported ==
  ToolLoopReturned =>
     /\ FooterCount = (IF lastUsage = NoUsage THEN 0 ELSE 1)
     /\ lastUsage # NoUsage => LastPart = FooterOf(lastUsage)
     /\ \A i \in 1..Len(accumulatedText) - FooterCount :
           accumulatedText[i] \in {"text", CallsNote, RoundsNote}

\* C31 (amended): the returned text ends with the usage footer, exactly once,
\* when some provider response of the request carried a usage field; its
\* counts are those of the last response that carried one (the last response
\* of the request when that one reports usage); without any usage field the
\* text has no footer.
C31_FooterOfLastReportedUsage == []FooterAsReported /\ [][KeepsLastReportedUsage]_vars

\* two rounds: the first response reported usage 2, the last one none
C31_Witness ==
  /\ ToolLoopReturned /\ providerCalls = 2 /\ executed > 0
  /\ responseUsage = NoUsage /\ lastUsage = 2
  /\ LastPart = FooterOf(2)

\* ---------------------------------------------------------------------------
\* the tool calls the model emitted in this request and that have been
\* answered: each has its tool message or, within the running turn, its result
EmittedAnswered == Len(ToolMessages) + Len(toolResults)
FalseEntries(log) == Cardinality({i \in 1..Len(log) : ~log[i].success})

LogStep ==
  /\ IsPrefix(toolLog, toolLog')
  /\ \A ok \in BOOLEAN :
       ToolReturn(ok) => toolLog' = Append(toolLog, [sandbox |-> req.agent, success |-> ok])
  /\ (~\E ok \in BOOLEAN : ToolReturn(ok)) => toolLog' = toolLog
StatsOfDispatched ==
  /\ getStats(toolLog, 1).totalCalls = executed - (IF lpc = "tool" THEN 1 ELSE 0)
  /\ getStats(toolLog, 1).errors = FalseEntries(toolLog)
  /\ getStats(toolLog, 1).totalCalls <= EmittedAnswered

TranscriptAt(i) == SubSeq(sharedMessages, 1, bStart + i)
\* the agent entries among the last maxContextMessages entries of t, in order
RecentAgentEntries(t) ==
  LET from == IF Len(t) > maxContextMessages THEN Len(t) - maxContextMessages + 1 ELSE 1
  IN  SelectSeq(SubSeq(t, from, Len(t)), LAMBDA e : e.agentId # NullId)
OlderAgentPieces(t) ==
  UNION {Range(t[j].content) : j \in {q \in 1..(Len(t) - maxContextMessages) :
                                        t[q].agentId # NullId}}

\* C33: buildContextPrompt draws teammate entries only from the last 50
\* entries of the shared transcript: every agent entry within those 50 is in
\* the prompt, in transcript order, no older entry is, and the user message
\* passed to the call is always present.
C33_PromptCap ==
  \A i \in 1..Len(prompts) :
    (bStart + i <= Len(sharedMessages) /\ i <= Len(team)) =>
      LET t == TranscriptAt(i)
          recent == RecentAgentEntries(t)
      IN  /\ prompts[i] = RenderPrompt(bMsg, team[i], recent, recent = <<>>)
          /\ Len(prompts[i]) >= 2 /\ prompts[i][2] = bMsg
          /\ OlderAgentPieces(t) \cap Range(prompts[i]) = {}

\* the second agent's prompt was built from a transcript of more than 50
\* entries whose oldest replies are left out
C33_Witness ==
  /\ Len(prompts) = 2 /\ bStart + 2 > maxContextMessages + 2
  /\ OlderAgentPieces(TranscriptAt(2)) # {}
  /\ "reply" \in Range(prompts[2])
  /\ Len(RecentAgentEntries(TranscriptAt(2))) > 30

\* ---------------------------------------------------------------------------
\* a DM request settles in this step: the one in flight, or the one begun
\* while another request was awaiting
DMSettles == req.kind = "dm" /\ req'.kind = "none"
SideSettles == sideDM.kind = "dm" /\ sideDM'.kind = "none"
SettledDM == IF SideSettles THEN sideDM ELSE req
DMSucceeded ==
  LET a == SettledDM.agent
  IN  /\ Len(messages'[a]) = Len(messages[a]) + 2
      /\ SubSeq(messages'[a], 1, Len(messages[a])) = messages[a]
      /\ messages'[a][Len(messages[a]) + 1] = [role |-> "user", content |-> SettledDM.msg]
      /\ messages'[a][Len(messages[a]) + 2].role = "assistant"
      /\ messages'[a][Len(messages[a]) + 2].content = <<"reply">>
      /\ status'[a] = "idle"
DMFailed ==
  LET a == SettledDM.agent
  IN  messages'[a] = messages[a] /\ status'[a] = "error"

\* C34: a DM request (includeHistory = true) that succeeds makes the agent's
\* history grow by exactly two messages, user(text) then assistant(response);
\* one that fails leaves the history unchanged and the status is error.  The
\* request in flight succeeds exactly when its processPrompt returned.
C34_DMHistoryUpdate ==
  [][/\ (DMSettles \/ SideSettles) => (DMSucceeded \/ DMFailed)
     /\ (DMSettles /\ ~SideSettles) => (DMSucceeded <=> lpc' = "returned")
     /\ (DMSettles /\ ~SideSettles /\ lpc' = "threw") => DMFailed]_vars

\* agent 1 answered its DM, agent 2's DM failed
C34_Witness ==
  /\ req.kind = "none" /\ Len(team) = 2
  /\ Len(messages[1]) = 2 /\ messages[1][1] = [role |-> "user", content |-> <<"m1">>]
  /\ messages[1][2].role = "assistant"
  /\ messages[2] = <<>> /\ status[2] = "error" /\ status[1] = "idle"

\* ---------------------------------------------------------------------------
\* C35: the OpenAI-format tool loop and the Anthropic tool loop are equivalent
\* on the same provider turns: they execute the same number of tools, make the
\* same number of provider calls, give the limit-reached result to the same
\* calls and append the same sentinels.
C35_LoopsEquivalent == loopOutcome.ran => loopOutcome.grok = loopOutcome.claude

\* what the two runs do share: the provider calls, the calls answered with the
\* limit-reached result, the sentinels and how the run ended
LoopsAgreeButOnExecution ==
  loopOutcome.ran =>
    /\ [loopOutcome.grok EXCEPT !.executed = 0] = [loopOutcome.claude EXCEPT !.executed = 0]
    /\ loopOutcome.grok.executed >= loopOutcome.claude.executed

\* ---------------------------------------------------------------------------
\* what the command invokes
NetworkUtilities == {"curl", "wget", "nc", "ssh", "scp", "sftp"}
PackageInstallers == {"npm", "pip", "pip3", "apt", "apt-get", "yum", "brew"}
InvokesNetwork(w) == \E x \in NetworkUtilities : HasWord(w, x)
InvokesInstaller(w) == Followed(w, PackageInstallers, {"install"})
NonStandardPort(url) == url.port \notin {"", "80", "443"}
CallBlocked == callOut # NotCalled /\ callOut = BlockedCall

\* safe mode rejects whatever is rejected without it
SafeModeOnlyTightens ==
  /\ callIn.tool = "bash" =>
       (~validateBashIn(FALSE, callIn.command) => ~validateBashIn(TRUE, callIn.command))
  /\ callIn.tool = "webfetch" =>
       (~validateUrlIn(FALSE, callIn.url) => ~validateUrlIn(TRUE, callIn.url))
\* in safe mode a call of a network utility, and a URL with a port other than
\* 80 and 443, is rejected
SafeModeRejectsNetwork ==
  (safeMode /\ callOut # NotCalled) =>
     /\ (callIn.tool = "bash" /\ InvokesNetwork(callIn.command)) => CallBlocked
     /\ (callIn.tool = "webfetch" /\ callIn.url.parses /\ NonStandardPort(callIn.url))
           => CallBlocked
SafeModeRejectsInstallers ==
  (safeMode /\ callOut # NotCalled) =>
     ((callIn.tool = "bash" /\ InvokesInstaller(callIn.command)) => CallBlocked)

\* C36: safe mode only tightens the sandbox: what is rejected with safeMode
\* off is rejected with safeMode on, and with safeMode on every command that
\* invokes curl, wget, nc, ssh, scp, sftp or a package installer, and every
\* URL with a port other than 80 and 443, is rejected.
C36_SafeModeTightens ==
  SafeModeOnlyTightens /\ SafeModeRejectsNetwork /\ SafeModeRejectsInstallers

\* ---------------------------------------------------------------------------
\* what loadTeam(name) gives on the disk `d`: the error, or the record's name
\* and its agents as fromJSON builds them
LoadResult(d, name) ==
  LET data == d[SafeName(name)]
  IN  IF ~data.exists
        THEN [found |-> FALSE, name |-> NoName, agents |-> <<>>]
        ELSE [found |-> TRUE, name |-> data.name,
              agents |-> [i \in 1..Len(data.agents) |-> fromJSON(data.agents[i], i)]]

\* this step is a saveTeam or a deleteTeam that did not throw, on the team
\* named `WrittenName`
WriteStep ==
  /\ nOps' = nOps + 1
  /\ lastOp'.op \in {"saveTeam", "deleteTeam"}
  /\ ~lastOp'.threw
WrittenName == IF lastOp'.name = NoName THEN currentTeam.name ELSE lastOp'.name
OthersLoadAsBefore(names) ==
  \A other \in names : LoadResult(disk', other) = LoadResult(disk, other)

\* C37: for two teams with different names, saving or deleting the one never
\* changes what loadTeam of the other returns, also when the two names differ
\* only in characters that the safe-name rule folds to '_'.
C37_NoClobber ==
  [][WriteStep => OthersLoadAsBefore(TeamNames \ {WrittenName})]_vars

\* the records of names with different safe names are kept apart
NoClobberAcrossFiles ==
  [][WriteStep =>
       OthersLoadAsBefore({other \in TeamNames :
                             SafeName(other) # SafeName(WrittenName)})]_vars

\* ---------------------------------------------------------------------------
\* the transcript entries of a broadcast's responses
OwnEntries(rs) == [j \in 1..Len(rs) |-> Entry(rs[j].agent, rs[j].response)]
\* the broadcast that began at `start` with the message m has its user entry
\* and, right after it, its own agent entries
BlockAt(start, m, rs) ==
  /\ Len(sharedMessages) >= start + 1 + Len(rs)
  /\ SubSeq(sharedMessages, start + 1, start + 1 + Len(rs)) = <<UserEntry(m)>> \o OwnEntries(rs)
\* each of its prompts is built from the transcript as the broadcast found it
\* and its own earlier replies
PromptsOwn(start, m, rs, ps) ==
  \A k \in 1..Len(ps) :
    k - 1 <= Len(rs) =>
      ps[k] = buildContextPrompt(SubSeq(sharedMessages, 1, start + 1)
                                   \o SubSeq(OwnEntries(rs), 1, k - 1), m, team[k])
BroadcastOver == bMsg # "" /\ hostError = <<>> /\ Len(responses) = Len(team)
SideBroadcastOver == sideBroadcast.pc = "done"
Overlapped == sideBroadcast.pc # "none" /\ bMsg # ""

\* C38: two overlapping broadcastToAll calls on one channel do not interleave:
\* the user entry of each is immediately followed by the n agent entries of
\* that broadcast, and the prompt of each agent holds only replies of its own
\* broadcast.
C38_BroadcastsDoNotInterleave ==
  /\ BroadcastOver => BlockAt(bStart, bMsg, responses)
  /\ SideBroadcastOver =>
       BlockAt(sideBroadcast.start, sideBroadcast.msg, sideBroadcast.responses)
  /\ bMsg # "" => PromptsOwn(bStart, bMsg, responses, prompts)
  /\ sideBroadcast.pc # "none" =>
       PromptsOwn(sideBroadcast.start, sideBroadcast.msg, sideBroadcast.responses,
                  sideBroadcast.prompts)

\* broadcasts that follow one another keep their blocks and their prompts
SuccessiveBroadcastsKeepBlocks ==
  sideBroadcast.pc = "none" =>
     /\ BroadcastOver => BlockAt(bStart, bMsg, responses)
     /\ bMsg # "" => PromptsOwn(bStart, bMsg, responses, prompts)

\* ---------------------------------------------------------------------------
\* this step is the 'edit-agent' handler changing the agent at `EditedIndex`
EditStep == lastOp'.op = "editAgent" /\ ~lastOp'.threw /\ nOps' = nOps + 1
EditedIndex == IndexOfId(currentTeam.agents, lastOp'.id)
\* the agent is the same object with the same id at the same place, and the
\* other agents are as they were
EditKeepsPlace ==
  /\ Len(currentTeam'.agents) = Len(currentTeam.agents)
  /\ \A i \in 1..Len(currentTeam.agents) :
       /\ currentTeam'.agents[i].id = currentTeam.agents[i].id
       /\ currentTeam'.agents[i].serial = currentTeam.agents[i].serial
       /\ i # EditedIndex => currentTeam'.agents[i] = currentTeam.agents[i]
\* the agent's key, and the key a saveTeam writes for it, are as before
EditKeepsKey ==
  /\ currentTeam'.agents[EditedIndex].apiKey = currentTeam.agents[EditedIndex].apiKey
  /\ toJSON(currentTeam'.agents[EditedIndex]).apiKey
       = toJSON(currentTeam.agents[EditedIndex]).apiKey

\* C39: editing an agent through the dialog changes only the edited fields:
\* the agent keeps its id, its position in the team and its explicit API key,
\* so that a later saveTeam persists the same apiKey as before the edit.  (The
\* handler assigns nothing to the agent's messages; the DM history is no part
\* of the team record.)
C39_EditKeepsIdentityAndKey == [][EditStep => EditKeepsPlace /\ EditKeepsKey]_vars

\* what the edit does keep
EditKeepsIdAndPosition == [][EditStep => EditKeepsPlace]_vars

\* ---------------------------------------------------------------------------
\* the wizard's steps: the text box serves 0, 1 and 4, the list 2, 3 and 5
TextSteps == {0, 1, 4}
ListSteps == {2, 3, 5}
StepInRange == dialog.step \in 0..5
NameMissing(value) == dialog.step = 0 /\ value = "" /\ dialog.fields.name = ""
\* a text submit advances by one at a text step, and nowhere else
TextSubmitMoves ==
  \A value \in TextValues :
    handleTextSubmit(value) =>
      /\ dialog'.step = IF dialog.step \in TextSteps /\ ~NameMissing(value)
                          THEN dialog.step + 1 ELSE dialog.step
      /\ dialog.step \notin TextSteps => dialog' = dialog
\* a list select advances by one at steps 2 and 3, ends the dialog at step 5,
\* and does nothing elsewhere
ListSelectMoves ==
  \A index \in 0..MaxListIndex :
    handleListSelect(index) =>
      /\ dialog'.step = IF dialog.step \in {2, 3} THEN dialog.step + 1 ELSE dialog.step
      /\ dialog.step \notin ListSteps => dialog' = dialog
      /\ dialog.step = 5 => ~dialog'.visible
\* handleBack goes one step back, or at step 0 hides the dialog and emits closed
BackMoves ==
  handleBack =>
    IF dialog.step > 0
      THEN dialog' = [dialog EXCEPT !.step = @ - 1]
      ELSE dialog' = [dialog EXCEPT !.visible = FALSE, !.emitted = Append(@, <<"closed">>)]
\* Save is selected at step 5
SaveSelected == handleListSelect(0) /\ dialog.step = 5
\* the event that save emits: add-agent for a new agent, edit-agent with the
\* id of the edited agent
IsSaveEvent(e) ==
  /\ e[1] = (IF dialog.editing # NoAgent THEN "edit-agent" ELSE "add-agent")
  /\ e[2].id = dialog.editing
  /\ e[2].name = dialog.fields.name
EmittedBySave == SubSeq(dialog'.emitted, Len(dialog.emitted) + 1, Len(dialog'.emitted))
SaveEmitsOneEvent ==
  SaveSelected => Len(EmittedBySave) = 1 /\ IsSaveEvent(EmittedBySave[1])
SaveEmitsEventThenClosed ==
  SaveSelected =>
    /\ Len(EmittedBySave) = 2
    /\ IsSaveEvent(EmittedBySave[1])
    /\ EmittedBySave[2] = <<"closed">>

\* C40 as stated: the step is always in 0..5; a text submit advances by one
\* step only at steps 0, 1 and 4, not at step 0 while the name is empty; a
\* list select acts only at steps 2, 3 and 5; handleBack decreases the step by
\* one, or at step 0 hides the dialog and emits closed; selecting Save at step
\* 5 emits exactly one event, add-agent or edit-agent with the original id.
C40_WizardOneEventOnSave ==
  /\ []StepInRange
  /\ [][TextSubmitMoves /\ ListSelectMoves /\ BackMoves /\ SaveEmitsOneEvent]_vars

\* C40, amended: the same, but selecting Save at step 5 emits two events,
\* first add-agent or edit-agent with the original id, then closed.
C40_WizardSaveThenClosed ==
  /\ []StepInRange
  /\ [][TextSubmitMoves /\ ListSelectMoves /\ BackMoves /\ SaveEmitsEventThenClosed]_vars

\* an edit went through all the steps and was saved
C40_Witness ==
  /\ ~dialog.visible /\ dialog.step = 5
  /\ Len(dialog.emitted) = 2
  /\ dialog.emitted[1][1] = "edit-agent"
  /\ dialog.emitted[1][2].id = <<"x">>
  /\ dialog.emitted[1][2].provider = "ollama"
  /\ dialog.emitted[1][2].model = "grok-4-1-fast-reasoning"
  /\ dialog.fields.role = "Rev"
====
